---- MODULE Spec2Model ----
(***************************************************************************)
(* firepilot: lifecycle of a microVM driven through a control socket.      *)
(* Model of Machine (firepilot/src/machine.rs), Executor                   *)
(* (firepilot/src/executor.rs) and Configuration                           *)
(* (firepilot/src/builder/mod.rs), with the filesystem, the supervisor     *)
(* processes and the control socket as environment.                        *)
(***************************************************************************)
EXTENDS Integers, Sequences, FiniteSets, TLC

\* ---------------------------------------------------------------- bounds
\* number of public operations called in one behaviour
MaxOps == 3
\* longest drive list of a Configuration
MaxDrives == 2
\* longest interface list of a Configuration
MaxIfaces == 2
\* longest list passed to configure_drives or configure_network called directly
MaxEntries == 3

\* ------------------------------------------------------ program constants
\* wait_healthy: `while retries < 10`
MaxRetries == 10

\* ------------------------------------------------------------ Option<T>
None == <<>>
Some(x) == <<x>>
is_some(o) == Len(o) > 0
is_none(o) == Len(o) = 0
unwrap(o) == o[1]

\* ---------------------------------------------------------------- paths
\* A path is the tuple of its components; PathBuf::join appends one.
join(p, c) == Append(p, c)
HostPath(n) == <<"host", n>>

\* Image files present on the host; every other host path is missing.
HostImages == {"kernel.bin", "initrd.img", "rootfs.ext4", "data.img"}

Image(n) == [kind |-> "image", data |-> n, pid |-> 0]
Socket(p) == [kind |-> "socket", data |-> "", pid |-> p]

\* ------------------------------------------------------------- Executor
FirecrackerExecutor == [chroot |-> "/srv", exec_binary |-> "/usr/bin/firecracker"]

Executor_new ==
    [firecracker |-> None, socket_process |-> None, id |-> "default"]

new_with_firecracker(fc) ==
    [firecracker |-> Some(fc), socket_process |-> None, id |-> "default"]

with_id(e, id) == [e EXCEPT !.id = id]

is_running(e) == is_some(e.socket_process)

\* Executor::executor panics when no implementation is configured.
executor_panics(e) == is_none(e.firecracker)

\* Executor::chroot, defined when executor_panics(e) is false.
chroot(e) == join(<<unwrap(e.firecracker).chroot>>, e.id)

socket_path(e) == join(chroot(e), "firecracker.socket")

\* ------------------------------------------------------- builder outputs
DrivePool ==
    { [drive_id |-> "rootfs",  path_on_host |-> HostPath("rootfs.ext4")],
      [drive_id |-> "data",    path_on_host |-> HostPath("data.img")],
      [drive_id |-> "scratch", path_on_host |-> HostPath("missing.img")] }

IfacePool ==
    { [iface_id |-> "eth0", host_dev_name |-> "tap0"],
      [iface_id |-> "eth1", host_dev_name |-> "tap1"] }

KernelPool ==
    { [kernel_image_path |-> HostPath("kernel.bin"), initrd_path |-> i] :
        i \in {None, Some(HostPath("initrd.img")), Some(HostPath("missing.img"))} }
    \cup { [kernel_image_path |-> HostPath("missing.bin"), initrd_path |-> None] }

SeqsUpTo(S, n) == UNION { [1..k -> S] : k \in 0..n }

\* The lists of at most n elements of S that name no element twice.
DistinctSeqsUpTo(S, n) ==
    { q \in SeqsUpTo(S, n) : \A i, j \in 1..Len(q) : q[i] = q[j] => i = j }

\* --------------------------------------------------------- Configuration
Configuration_new(vm_id) ==
    [kernel |-> None, executor |-> None, storage |-> <<>>,
     interfaces |-> <<>>, vm_id |-> vm_id]

with_kernel(c, kernel) == [c EXCEPT !.kernel = Some(kernel)]

\* A variant of with_executor: the executor keeps the id it came with.
with_executor_keeps_id(c, e) == [c EXCEPT !.executor = Some(e)]

with_executor(c, e) == [c EXCEPT !.executor = Some(with_id(e, c.vm_id))]

with_drive(c, drive) == [c EXCEPT !.storage = Append(@, drive)]

with_interface(c, iface) == [c EXCEPT !.interfaces = Append(@, iface)]

RECURSIVE with_drives(_, _)
with_drives(c, ds) ==
    IF ds = <<>> THEN c ELSE with_drives(with_drive(c, Head(ds)), Tail(ds))

RECURSIVE with_interfaces(_, _)
with_interfaces(c, is) ==
    IF is = <<>> THEN c ELSE with_interfaces(with_interface(c, Head(is)), Tail(is))

\* The Configurations a caller assembles from builder outputs: any list of
\* drives (a drive may be given twice), each interface given once.
Configurations ==
    { with_interfaces(with_drives(ck, ds), is) :
        ck \in { IF is_some(k) THEN with_kernel(ce, unwrap(k)) ELSE ce :
                   k \in {None} \cup { Some(b) : b \in KernelPool },
                   ce \in { Configuration_new("vm1"),
                            with_executor(Configuration_new("vm1"),
                                          new_with_firecracker(FirecrackerExecutor)) } },
        ds \in SeqsUpTo(DrivePool, MaxDrives),
        is \in DistinctSeqsUpTo(IfacePool, MaxIfaces) }


\* ------------------------------------------------------------ the errors
\* impl From<ExecuteError> for FirepilotError: the kind each error becomes.
\* A variant of From: a failed command becomes Execute.
From_command_is_execute(e) ==
    CASE e = "CommandExecution"  -> "Execute"
      [] e = "Request"           -> "Configure"
      [] e = "Serialize"         -> "Configure"
      [] e = "Socket"            -> "Configure"
      [] e = "WorkspaceCreation" -> "Setup"
      [] e = "WorkspaceDeletion" -> "Setup"
      [] e = "Unhealthy"         -> "Configure"

From(e) ==
    CASE e = "CommandExecution"  -> "Setup"
      [] e = "Request"           -> "Configure"
      [] e = "Serialize"         -> "Configure"
      [] e = "Socket"            -> "Configure"
      [] e = "WorkspaceCreation" -> "Setup"
      [] e = "WorkspaceDeletion" -> "Setup"
      [] e = "Unhealthy"         -> "Configure"

MachineOps == {"create", "start", "stop", "kill"}

\* The error an operation returns: Machine operations convert with `?`.
Raise(o, e) == IF o \in MachineOps THEN From(e) ELSE e

NoResult == [status |-> "none", error |-> "", step |-> ""]
Ok == [status |-> "Ok", error |-> "", step |-> ""]
Err(e, s) == [status |-> "Err", error |-> e, step |-> s]
Panic(s) == [status |-> "Panic", error |-> "", step |-> s]

\* -------------------------------------------------------------- requests
\* serde_json::to_string of the objects sent: the fields, in order.
to_string_drive(d) == <<"drive_id", d.drive_id, "path_on_host", d.path_on_host>>
to_string_boot_source(b) ==
    <<"kernel_image_path", b.kernel_image_path, "initrd_path", b.initrd_path>>
to_string_network_interface(n) ==
    <<"iface_id", n.iface_id, "host_dev_name", n.host_dev_name>>
to_string_action(a) == <<"action_type", a>>

\* send_request: the error for an outcome of the exchange.
send_request_error(out) ==
    IF out = "undelivered" THEN "Request" ELSE "CommandExecution"

\* A variant of create_order: the boot source is configured before the drives.
create_order_boot_first ==
    <<"configure_boot_source", "configure_drives", "configure_network">>

\* Machine::create, step 6: the order of the configure_* calls.
create_order == <<"configure_drives", "configure_boot_source", "configure_network">>

\* A variant of wait_healthy_continue: one check too many.
wait_healthy_continue_once_more(r) == r <= MaxRetries

\* wait_healthy: the loop condition.
wait_healthy_continue(r) == r < MaxRetries

\* ---------------------------------------------------------------- state
VARIABLES
    executor,   \* Machine.executor
    dirs,       \* the workspace directories that exist
    files,      \* path -> content of every existing file
    procs,      \* the supervisor processes spawned so far, by pid
    op,         \* the operation called last
    pc,         \* where that operation stands ("idle": it has returned)
    arg,        \* the Configuration the caller assembled and passes to create
    config,     \* create's local `config` (its drives are rewritten in place)
    idx,        \* the position of the loop being run
    retries,    \* wait_healthy's `retries` (0 outside wait_healthy)
    child,      \* run_socket's `child` (0 outside run_socket)
    result,     \* what the operation returned
    effects,    \* what the operation has done so far, in order
    nOps,       \* operations called so far
    builder,    \* the builder a caller is filling in
    built,      \* what try_build returned for it
    env,        \* the process environment: FIRECRACKER_LOCATION and PATH
    flight,     \* a request sent to the socket by a second task
    raised      \* an error on its way through the Machine boundary

vars == <<executor, dirs, files, procs, op, pc, arg, config, idx, retries,
          child, result, effects, nOps, builder, built, env, flight, raised>>

NoConfig == Configuration_new("")
\* No builder is being filled in; try_build has not been called.
NoBuilder == [kind |-> "none"]
\* Neither variable is set.
NoEnv == [FIRECRACKER_LOCATION |-> None, PATH |-> None]
NoBuilt == [status |-> "none", error |-> "", field |-> "", value |-> None]
NoPath == <<>>
\* No error is being returned.
NoRaised == [from |-> None, to |-> None]
\* No second task sends a request.
NoFlight == [pc |-> "none", resource |-> <<>>, pid |-> 0, result |-> NoResult]

Effect(k, s, d, b, p, r, o) ==
    [kind |-> k, src |-> s, dst |-> d, body |-> b, pid |-> p, running |-> r, ok |-> o]

Mkdir(d, o) == Effect("mkdir", NoPath, d, <<>>, 0, FALSE, o)
Copy(s, d, o) == Effect("copy", s, d, <<>>, 0, FALSE, o)
Spawn(p, d, o) == Effect("spawn", NoPath, d, <<>>, p, FALSE, o)
\* A request carries its method as well: send_request builds every one as PUT.
Req(res, sock, b, r, o) ==
    [kind |-> "req", src |-> res, dst |-> sock, body |-> b, pid |-> 0,
     running |-> r, ok |-> o, method |-> "PUT"]
Kill(p, o) == Effect("kill", NoPath, NoPath, <<>>, p, FALSE, o)
Remove(d, o) == Effect("remove", NoPath, d, <<>>, 0, FALSE, o)

HostFiles == [p \in {HostPath(n) : n \in HostImages} |-> Image(p[2])]

StaleDir == <<"/srv", "vm1">>
StaleSocket == join(StaleDir, "firecracker.socket")

\* Machine::new; the workspace may hold the socket file of a crashed instance.
Init ==
    /\ executor = Executor_new
    /\ \E stale \in BOOLEAN :
         /\ dirs = IF stale THEN {StaleDir} ELSE {}
         /\ files = IF stale THEN (StaleSocket :> Socket(0)) @@ HostFiles
                             ELSE HostFiles
    /\ procs = <<>>
    /\ op = "none"
    /\ pc = "idle"
    /\ arg \in Configurations
    /\ config = NoConfig
    /\ idx = 0
    /\ retries = 0
    /\ child = 0
    /\ result = NoResult
    /\ effects = <<>>
    /\ nOps = 0
    /\ builder = NoBuilder
    /\ built = NoBuilt
    /\ env = NoEnv
    /\ flight = NoFlight
    /\ raised = NoRaised

\* A caller can call an operation: the last one returned, without a panic.
CanCall == pc = "idle" /\ result.status # "Panic" /\ nOps < MaxOps

\* The operation returns r.
Finish(r) == pc' = "idle" /\ result' = r

\* -------------------------------------------------------------- the socket
\* A request is answered only by a live process bound to the socket file.
listening(sock) ==
    /\ sock \in DOMAIN files
    /\ files[sock].kind = "socket"
    /\ files[sock].pid > 0
    /\ procs[files[sock].pid].state = "running"

Outcomes(sock) ==
    IF listening(sock) THEN {"ok", "status", "undelivered"} ELSE {"undelivered"}

\* A variant of socket_seen: the socket counts only when a process answers on it.
socket_seen_probe(sock) == listening(sock)

\* wait_healthy: std::fs::metadata(&sock).is_ok(), true of any file at the path.
socket_seen(sock) == sock \in DOMAIN files

parent(p) == SubSeq(p, 1, Len(p) - 1)

\* A variant of create_dir_all: as std::fs::create_dir, which fails on a
\* directory that exists.
create_dir(d) == IF d \in dirs THEN {FALSE} ELSE BOOLEAN

\* std::fs::create_dir_all(d): whether the directory gets made; on a directory
\* that exists it succeeds, otherwise it may fail (permissions, disk).
create_dir_all(d) == IF d \in dirs THEN {TRUE} ELSE BOOLEAN

\* std::fs::copy(from, to)
\* A variant of copy_ok that refuses to overwrite a file.
copy_ok_no_overwrite(from, to) ==
    from \in DOMAIN files /\ parent(to) \in dirs /\ to \notin DOMAIN files

copy_ok(from, to) == from \in DOMAIN files /\ parent(to) \in dirs
copy_files(from, to) == (to :> files[from]) @@ files


\* --------------------------------------------------------- Machine::create
\* The step of create that follows phase k of create_order.
RECURSIVE phase_from(_, _)
phase_from(k, c) ==
    IF k > Len(create_order) THEN "return"
    ELSE IF create_order[k] = "configure_drives" /\ c.storage = <<>>
           THEN phase_from(k + 1, c)
    ELSE IF create_order[k] = "configure_network" /\ c.interfaces = <<>>
           THEN phase_from(k + 1, c)
    ELSE create_order[k]

phase_of(p) == CHOOSE k \in 1..Len(create_order) : create_order[k] = p

\* The step after the configure_* call p of operation o has sent its last
\* request: the next call of create, or the return of a direct call.
after_phase(o, p, c) ==
    IF o = "create" THEN phase_from(phase_of(p) + 1, c) ELSE "return"

\* The step of create that follows the copy of drive number i.
after_drive_copy(c, i) ==
    IF i < Len(c.storage) THEN "copy_drive" ELSE "copy_kernel"

\* A variant of after_kernel_copy: the initrd is never copied.
after_kernel_copy_skips_initrd(c) == "run_socket"

\* A variant of after_kernel_copy: create configures without run_socket.
after_kernel_copy_skips_run_socket(c) ==
    IF is_some(unwrap(c.kernel).initrd_path) THEN "copy_initrd" ELSE phase_from(1, c)

\* The step of create that follows the copy of the kernel.
after_kernel_copy(c) ==
    IF is_some(unwrap(c.kernel).initrd_path) THEN "copy_initrd" ELSE "run_socket"

\* Go on with step p, or return Ok when nothing is left to do.
Goto(p) ==
    IF p = "return" THEN Finish(Ok) ELSE pc' = p /\ result' = result

\* A variant of missing_executor: the executor is unwrapped without a check.
missing_executor_unwrap == Panic("executor")

\* machine.rs 92-94: what create returns for a Configuration without executor.
missing_executor == Err("Setup", "executor")

\* machine.rs 90-101: take the executor, create the workspace, unwrap the kernel.
create_begin(cfg) ==
    /\ CanCall
    /\ nOps' = nOps + 1
    /\ UNCHANGED <<builder, built, env, flight, raised>>
    /\ op' = "create"
    /\ UNCHANGED arg
    /\ config' = cfg
    /\ idx' = 0 /\ retries' = 0 /\ child' = 0
    /\ UNCHANGED <<files, procs>>
    /\ IF is_none(cfg.executor)
       THEN /\ Finish(missing_executor)
            /\ effects' = <<>>
            /\ UNCHANGED <<executor, dirs>>
       ELSE /\ executor' = unwrap(cfg.executor)
            /\ IF executor_panics(executor')
               THEN /\ Finish(Panic("executor"))
                    /\ effects' = <<>>
                    /\ UNCHANGED dirs
               ELSE \E made \in create_dir_all(chroot(executor')) :
                      IF ~made
                      THEN /\ Finish(Err(Raise("create", "WorkspaceCreation"),
                                         "create_workspace"))
                           /\ effects' = <<Mkdir(chroot(executor'), "failed")>>
                           /\ UNCHANGED dirs
                      ELSE /\ dirs' = dirs \cup {chroot(executor')}
                           /\ effects' = <<Mkdir(chroot(executor'), "ok")>>
                           /\ IF is_none(cfg.kernel)
                              THEN Finish(Panic("kernel"))
                              ELSE Goto(after_drive_copy(cfg, 0))

\* A variant of create_copy_drive: the drive keeps the path it had on the host.
create_copy_drive_keeps_host_path ==
    /\ pc = "copy_drive"
    /\ LET drive == config.storage[idx + 1]
           new_drive_path == join(chroot(executor), drive.drive_id)
       IN IF copy_ok(drive.path_on_host, new_drive_path)
          THEN /\ files' = copy_files(drive.path_on_host, new_drive_path)
               /\ idx' = idx + 1
               /\ effects' = Append(effects,
                                Copy(drive.path_on_host, new_drive_path, "ok"))
               /\ Goto(after_drive_copy(config, idx + 1))
          ELSE /\ effects' = Append(effects,
                                Copy(drive.path_on_host, new_drive_path, "failed"))
               /\ Finish(Err("Setup", "copy_drive"))
               /\ UNCHANGED <<files, idx>>
    /\ UNCHANGED <<executor, dirs, procs, op, arg, config, retries, child, nOps, builder, built, env, flight, raised>>

\* machine.rs 102-111: copy one drive into the workspace and rewrite its path.
create_copy_drive ==
    /\ pc = "copy_drive"
    /\ LET drive == config.storage[idx + 1]
           new_drive_path == join(chroot(executor), drive.drive_id)
       IN IF copy_ok(drive.path_on_host, new_drive_path)
          THEN /\ files' = copy_files(drive.path_on_host, new_drive_path)
               /\ config' = [config EXCEPT
                               !.storage[idx + 1].path_on_host = new_drive_path]
               /\ idx' = idx + 1
               /\ effects' = Append(effects,
                                Copy(drive.path_on_host, new_drive_path, "ok"))
               /\ Goto(after_drive_copy(config, idx + 1))
          ELSE /\ effects' = Append(effects,
                                Copy(drive.path_on_host, new_drive_path, "failed"))
               /\ Finish(Err("Setup", "copy_drive"))
               /\ UNCHANGED <<files, config, idx>>
    /\ UNCHANGED <<executor, dirs, procs, op, arg, retries, child, nOps, builder, built, env, flight, raised>>

\* A variant of create_copy_kernel: a failed copy of the kernel is ignored and
\* create goes on.
create_copy_kernel_ignores_error ==
    /\ pc = "copy_kernel"
    /\ LET kernel == unwrap(config.kernel)
           kernel_path == join(chroot(executor), "vmlinux")
       IN IF copy_ok(kernel.kernel_image_path, kernel_path)
          THEN /\ files' = copy_files(kernel.kernel_image_path, kernel_path)
               /\ effects' = Append(effects,
                                Copy(kernel.kernel_image_path, kernel_path, "ok"))
          ELSE /\ effects' = Append(effects,
                                Copy(kernel.kernel_image_path, kernel_path, "failed"))
               /\ UNCHANGED files
    /\ Goto(after_kernel_copy(config))
    /\ UNCHANGED <<executor, dirs, procs, op, arg, config, idx, retries, child, nOps, builder, built, env, flight, raised>>

\* machine.rs 113-120: copy the kernel to <workspace>/vmlinux.
create_copy_kernel ==
    /\ pc = "copy_kernel"
    /\ LET kernel == unwrap(config.kernel)
           kernel_path == join(chroot(executor), "vmlinux")
       IN IF copy_ok(kernel.kernel_image_path, kernel_path)
          THEN /\ files' = copy_files(kernel.kernel_image_path, kernel_path)
               /\ effects' = Append(effects,
                                Copy(kernel.kernel_image_path, kernel_path, "ok"))
               /\ Goto(after_kernel_copy(config))
          ELSE /\ effects' = Append(effects,
                                Copy(kernel.kernel_image_path, kernel_path, "failed"))
               /\ Finish(Err("Setup", "copy_kernel"))
               /\ UNCHANGED files
    /\ UNCHANGED <<executor, dirs, procs, op, arg, config, idx, retries, child, nOps, builder, built, env, flight, raised>>

\* machine.rs 122-124: copy the initrd, when there is one, to <workspace>/initrd.
create_copy_initrd ==
    /\ pc = "copy_initrd"
    /\ LET initrd == unwrap(unwrap(config.kernel).initrd_path)
           initrd_path == join(chroot(executor), "initrd")
       IN IF copy_ok(initrd, initrd_path)
          THEN /\ files' = copy_files(initrd, initrd_path)
               /\ effects' = Append(effects, Copy(initrd, initrd_path, "ok"))
               /\ Goto("run_socket")
          ELSE /\ effects' = Append(effects, Copy(initrd, initrd_path, "failed"))
               /\ Finish(Err("Setup", "copy_initrd"))
               /\ UNCHANGED files
    /\ UNCHANGED <<executor, dirs, procs, op, arg, config, idx, retries, child, nOps, builder, built, env, flight, raised>>

\* ---------------------------------------------------- Executor::run_socket
\* The step that follows a run_socket that returned Ok.
after_run_socket(o, c) ==
    IF o = "create" THEN phase_from(1, c) ELSE "return"

\* A variant of run_socket: the handle is recorded as soon as the child is
\* spawned, before the health wait.
run_socket_records_at_spawn ==
    /\ pc = "run_socket"
    /\ IF executor_panics(executor)
       THEN /\ Finish(Panic("executor"))
            /\ UNCHANGED <<executor, procs, child, effects>>
       ELSE \E spawned \in BOOLEAN :
              IF spawned
              THEN /\ procs' = Append(procs, [state |-> "running",
                                              sock |-> socket_path(executor),
                                              bound |-> FALSE])
                   /\ child' = Len(procs) + 1
                   /\ executor' = [executor EXCEPT
                                     !.socket_process = Some(Len(procs) + 1)]
                   /\ effects' = Append(effects,
                                   Spawn(Len(procs) + 1, socket_path(executor), "ok"))
                   /\ Goto("wait_healthy")
              ELSE /\ effects' = Append(effects,
                                   Spawn(0, socket_path(executor), "failed"))
                   /\ Finish(Err(Raise(op, "CommandExecution"), "spawn"))
                   /\ UNCHANGED <<executor, procs, child>>
    /\ retries' = 0
    /\ UNCHANGED <<dirs, files, op, arg, config, idx, nOps, builder, built, env, flight, raised>>

\* A variant of run_socket: after a spawn that failed the socket is waited for
\* all the same.
run_socket_waits_without_child ==
    /\ pc = "run_socket"
    /\ IF executor_panics(executor)
       THEN /\ Finish(Panic("executor"))
            /\ UNCHANGED <<procs, child, effects>>
       ELSE \E spawned \in BOOLEAN :
              IF spawned
              THEN /\ procs' = Append(procs, [state |-> "running",
                                              sock |-> socket_path(executor),
                                              bound |-> FALSE])
                   /\ child' = Len(procs) + 1
                   /\ effects' = Append(effects,
                                   Spawn(Len(procs) + 1, socket_path(executor), "ok"))
                   /\ Goto("wait_healthy")
              ELSE /\ effects' = Append(effects,
                                   Spawn(0, socket_path(executor), "failed"))
                   /\ Goto("wait_healthy")
                   /\ UNCHANGED <<procs, child>>
    /\ retries' = 0
    /\ UNCHANGED <<executor, dirs, files, op, arg, config, idx, nOps, builder, built, env, flight, raised>>

\* executor.rs 221-227: spawn the supervisor with --api-sock <socket path>.
run_socket ==
    /\ pc = "run_socket"
    /\ IF executor_panics(executor)
       THEN /\ Finish(Panic("executor"))
            /\ UNCHANGED <<procs, child, effects>>
       ELSE \E spawned \in BOOLEAN :
              IF spawned
              THEN /\ procs' = Append(procs, [state |-> "running",
                                              sock |-> socket_path(executor),
                                              bound |-> FALSE])
                   /\ child' = Len(procs) + 1
                   /\ effects' = Append(effects,
                                   Spawn(Len(procs) + 1, socket_path(executor), "ok"))
                   /\ Goto("wait_healthy")
              ELSE /\ effects' = Append(effects,
                                   Spawn(0, socket_path(executor), "failed"))
                   /\ Finish(Err(Raise(op, "CommandExecution"), "spawn"))
                   /\ UNCHANGED <<procs, child>>
    /\ retries' = 0
    /\ UNCHANGED <<executor, dirs, files, op, arg, config, idx, nOps, builder, built, env, flight, raised>>

\* executor.rs 147-155 and 228-231: one turn of the loop of wait_healthy; the
\* handle is recorded when the socket file is seen.
wait_healthy ==
    /\ pc = "wait_healthy"
    /\ wait_healthy_continue(retries)
    /\ LET sock == socket_path(executor)
       IN IF socket_seen(sock)
          THEN /\ executor' = [executor EXCEPT !.socket_process = Some(child)]
               /\ idx' = 0 /\ retries' = 0 /\ child' = 0
               /\ Goto(after_run_socket(op, config))
          ELSE /\ retries' = retries + 1
               /\ UNCHANGED <<executor, idx, child, pc, result>>
    /\ UNCHANGED <<dirs, files, procs, op, arg, config, effects, nOps, builder, built, env, flight, raised>>

\* A variant of wait_healthy_unhealthy: the child is killed before Unhealthy
\* is returned.
wait_healthy_unhealthy_kills ==
    /\ pc = "wait_healthy"
    /\ ~wait_healthy_continue(retries)
    /\ Finish(Err(Raise(op, "Unhealthy"), "wait_healthy"))
    /\ procs' = [procs EXCEPT ![child].state = "killed"]
    /\ effects' = Append(effects, Kill(child, "ok"))
    /\ retries' = 0 /\ child' = 0
    /\ UNCHANGED <<executor, dirs, files, op, arg, config, idx, nOps, builder, built, env, flight, raised>>

\* executor.rs 156-157: the loop is over and the file was never seen.
wait_healthy_unhealthy ==
    /\ pc = "wait_healthy"
    /\ ~wait_healthy_continue(retries)
    /\ Finish(Err(Raise(op, "Unhealthy"), "wait_healthy"))
    /\ retries' = 0 /\ child' = 0
    /\ UNCHANGED <<executor, dirs, files, procs, op, arg, config, idx, effects, nOps, builder, built, env, flight, raised>>

\* ------------------------------------------------- Executor::configure_*
\* A variant of Send: a response with a non-success status counts as success.
Send_accepts_any_status(resource, body, step, p) ==
    \E out \in Outcomes(socket_path(executor)) :
        /\ effects' = Append(effects, Req(resource, socket_path(executor), body,
                                          is_running(executor), out))
        /\ IF out \in {"ok", "status"}
           THEN Goto(p)
           ELSE Finish(Err(Raise(op, send_request_error(out)), step))

\* One request of a configure_* call: on success the next step is p.
Send(resource, body, step, p) ==
    \E out \in Outcomes(socket_path(executor)) :
        /\ effects' = Append(effects, Req(resource, socket_path(executor), body,
                                          is_running(executor), out))
        /\ IF out = "ok"
           THEN Goto(p)
           ELSE Finish(Err(Raise(op, send_request_error(out)), step))

\* A variant of configure_drives: after a failed request the loop goes on with
\* the next drive.
configure_drives_keeps_going ==
    /\ pc = "configure_drives"
    /\ LET drive == config.storage[idx + 1]
       IN \E out \in Outcomes(socket_path(executor)) :
            /\ effects' = Append(effects,
                            Req(<<"drives", drive.drive_id>>, socket_path(executor),
                                to_string_drive(drive), is_running(executor), out))
            /\ Goto(IF idx + 1 < Len(config.storage) THEN "configure_drives"
                    ELSE after_phase(op, "configure_drives", config))
    /\ idx' = IF idx + 1 < Len(config.storage) THEN idx + 1 ELSE 0
    /\ UNCHANGED <<executor, dirs, files, procs, op, arg, config, retries, child, nOps, builder, built, env, flight, raised>>

\* executor.rs 270-282: the request of the next drive of the list.
configure_drives ==
    /\ pc = "configure_drives"
    /\ LET drive == config.storage[idx + 1]
       IN Send(<<"drives", drive.drive_id>>, to_string_drive(drive),
               "configure_drives",
               IF idx + 1 < Len(config.storage) THEN "configure_drives"
               ELSE after_phase(op, "configure_drives", config))
    /\ idx' = IF idx + 1 < Len(config.storage) THEN idx + 1 ELSE 0
    /\ UNCHANGED <<executor, dirs, files, procs, op, arg, config, retries, child, nOps, builder, built, env, flight, raised>>

\* A variant of configure_boot_source: the request names the staged kernel and
\* initrd.
configure_boot_source_staged ==
    /\ pc = "configure_boot_source"
    /\ LET k == unwrap(config.kernel)
           staged == [kernel_image_path |-> join(chroot(executor), "vmlinux"),
                      initrd_path |-> IF is_some(k.initrd_path)
                                      THEN Some(join(chroot(executor), "initrd"))
                                      ELSE None]
       IN Send(<<"boot-source">>, to_string_boot_source(staged),
               "configure_boot_source",
               after_phase(op, "configure_boot_source", config))
    /\ idx' = 0
    /\ UNCHANGED <<executor, dirs, files, procs, op, arg, config, retries, child, nOps, builder, built, env, flight, raised>>

\* executor.rs 257-266: the request of the boot source.
configure_boot_source ==
    /\ pc = "configure_boot_source"
    /\ Send(<<"boot-source">>, to_string_boot_source(unwrap(config.kernel)),
            "configure_boot_source", after_phase(op, "configure_boot_source", config))
    /\ idx' = 0
    /\ UNCHANGED <<executor, dirs, files, procs, op, arg, config, retries, child, nOps, builder, built, env, flight, raised>>

\* A variant of configure_network: the interface is addressed by its host
\* device name.
configure_network_by_host_dev_name ==
    /\ pc = "configure_network"
    /\ LET iface == config.interfaces[idx + 1]
       IN Send(<<"network-interfaces", iface.host_dev_name>>,
               to_string_network_interface(iface), "configure_network",
               IF idx + 1 < Len(config.interfaces) THEN "configure_network"
               ELSE after_phase(op, "configure_network", config))
    /\ idx' = IF idx + 1 < Len(config.interfaces) THEN idx + 1 ELSE 0
    /\ UNCHANGED <<executor, dirs, files, procs, op, arg, config, retries, child, nOps, builder, built, env, flight, raised>>

\* executor.rs 286-302: the request of the next interface of the list.
configure_network ==
    /\ pc = "configure_network"
    /\ LET iface == config.interfaces[idx + 1]
       IN Send(<<"network-interfaces", iface.iface_id>>,
               to_string_network_interface(iface), "configure_network",
               IF idx + 1 < Len(config.interfaces) THEN "configure_network"
               ELSE after_phase(op, "configure_network", config))
    /\ idx' = IF idx + 1 < Len(config.interfaces) THEN idx + 1 ELSE 0
    /\ UNCHANGED <<executor, dirs, files, procs, op, arg, config, retries, child, nOps, builder, built, env, flight, raised>>


\* -------------------------------------------------- Executor::send_action
\* An operation that runs in one step starts here.
Call(o) ==
    /\ CanCall
    /\ nOps' = nOps + 1
    /\ UNCHANGED <<builder, built, env, flight, raised>>
    /\ op' = o
    /\ UNCHANGED arg
    /\ config' = NoConfig
    /\ idx' = 0 /\ retries' = 0 /\ child' = 0

\* executor.rs 202-209: one request to /actions carrying the action.
send_action(o, action) ==
    /\ Call(o)
    /\ IF executor_panics(executor)
       THEN /\ Finish(Panic("executor"))
            /\ effects' = <<>>
       ELSE \E out \in Outcomes(socket_path(executor)) :
              /\ effects' = <<Req(<<"actions">>, socket_path(executor),
                                  to_string_action(action),
                                  is_running(executor), out)>>
              /\ Finish(IF out = "ok" THEN Ok
                        ELSE Err(Raise(o, send_request_error(out)), "send_action"))
    /\ UNCHANGED <<executor, dirs, files, procs>>

\* machine.rs 144-147
start == send_action("start", "InstanceStart")

\* machine.rs 150-153
stop == send_action("stop", "SendCtrlAltDel")

\* ------------------------------------------------ Executor::destroy_socket
\* A variant of remove_file: the files beside the socket are removed with it.
remove_file_clears_workspace(p) ==
    [q \in {f \in DOMAIN files : parent(f) # parent(p)} |-> files[q]]

\* std::fs::remove_file(p)
remove_file(p) == [q \in DOMAIN files \ {p} |-> files[q]]

\* A variant of destroy_socket: the handle is kept after the socket is destroyed.
destroy_socket_keeps_handle(o) ==
    /\ Call(o)
    /\ UNCHANGED <<dirs, executor>>
    /\ IF executor_panics(executor)
       THEN /\ Finish(Panic("executor"))
            /\ effects' = <<>>
            /\ UNCHANGED <<files, procs>>
       ELSE IF ~is_running(executor)
       THEN /\ Finish(Err(Raise(o, "Socket"), "socket_process"))
            /\ effects' = <<>>
            /\ UNCHANGED <<files, procs>>
       ELSE LET pid == unwrap(executor.socket_process)
                sock_path == socket_path(executor)
            IN /\ procs' = [procs EXCEPT ![pid].state = "killed"]
               /\ IF sock_path \in DOMAIN files
                  THEN /\ files' = remove_file(sock_path)
                       /\ effects' = <<Kill(pid, "ok"), Remove(sock_path, "ok")>>
                       /\ Finish(Ok)
                  ELSE /\ effects' = <<Kill(pid, "ok"), Remove(sock_path, "failed")>>
                       /\ Finish(Err(Raise(o, "Socket"), "remove_file"))
                       /\ UNCHANGED files

\* executor.rs 236-253: kill the child, remove the socket file, clear the handle.
\* A variant of destroy_socket: the handle is looked at before the socket path.
destroy_socket_checks_handle_first(o) ==
    /\ Call(o)
    /\ UNCHANGED dirs
    /\ IF ~is_running(executor)
       THEN /\ Finish(Err(Raise(o, "Socket"), "socket_process"))
            /\ effects' = <<>>
            /\ UNCHANGED <<executor, files, procs>>
       ELSE IF executor_panics(executor)
       THEN /\ Finish(Panic("executor"))
            /\ effects' = <<>>
            /\ UNCHANGED <<executor, files, procs>>
       ELSE LET pid == unwrap(executor.socket_process)
                sock_path == socket_path(executor)
            IN /\ procs' = [procs EXCEPT ![pid].state = "killed"]
               /\ IF sock_path \in DOMAIN files
                  THEN /\ files' = remove_file(sock_path)
                       /\ executor' = [executor EXCEPT !.socket_process = None]
                       /\ effects' = <<Kill(pid, "ok"), Remove(sock_path, "ok")>>
                       /\ Finish(Ok)
                  ELSE /\ effects' = <<Kill(pid, "ok"), Remove(sock_path, "failed")>>
                       /\ Finish(Err(Raise(o, "Socket"), "remove_file"))
                       /\ UNCHANGED <<executor, files>>

destroy_socket(o) ==
    /\ Call(o)
    /\ UNCHANGED dirs
    /\ IF executor_panics(executor)
       THEN /\ Finish(Panic("executor"))
            /\ effects' = <<>>
            /\ UNCHANGED <<executor, files, procs>>
       ELSE IF ~is_running(executor)
       THEN /\ Finish(Err(Raise(o, "Socket"), "socket_process"))
            /\ effects' = <<>>
            /\ UNCHANGED <<executor, files, procs>>
       ELSE LET pid == unwrap(executor.socket_process)
                sock_path == socket_path(executor)
            IN /\ procs' = [procs EXCEPT ![pid].state = "killed"]
               /\ IF sock_path \in DOMAIN files
                  THEN /\ files' = remove_file(sock_path)
                       /\ executor' = [executor EXCEPT !.socket_process = None]
                       /\ effects' = <<Kill(pid, "ok"), Remove(sock_path, "ok")>>
                       /\ Finish(Ok)
                  ELSE /\ effects' = <<Kill(pid, "ok"), Remove(sock_path, "failed")>>
                       /\ Finish(Err(Raise(o, "Socket"), "remove_file"))
                       /\ UNCHANGED <<executor, files>>

\* machine.rs 138-141
kill == destroy_socket("kill")

\* ---------------------------------------------------------- environment
\* A running supervisor creates and binds its control socket.
SocketBind ==
    \E p \in 1..Len(procs) :
        /\ procs[p].state = "running"
        /\ ~procs[p].bound
        /\ procs[p].sock \notin DOMAIN files
        /\ parent(procs[p].sock) \in dirs
        /\ files' = (procs[p].sock :> Socket(p)) @@ files
        /\ procs' = [procs EXCEPT ![p].bound = TRUE]
        /\ UNCHANGED <<executor, dirs, op, pc, arg, config, idx, retries, child,
                       result, effects, nOps, builder, built, env, flight, raised>>

\* ------------------------------------------------------------ the system
create == create_begin(arg)

Next ==
    \/ create
    \/ create_copy_drive
    \/ create_copy_kernel
    \/ create_copy_initrd
    \/ run_socket
    \/ wait_healthy
    \/ wait_healthy_unhealthy
    \/ configure_drives
    \/ configure_boot_source
    \/ configure_network
    \/ start
    \/ stop
    \/ kill
    \/ SocketBind

Spec == Init /\ [][Next]_vars


\* ------------------------------------------- the Executor used directly
Actions == {"InstanceStart", "SendCtrlAltDel"}

\* executor.rs 212-214: the workspace path is asked for; nothing is touched.
Executor_chroot ==
    /\ Call("chroot")
    /\ Finish(IF executor_panics(executor) THEN Panic("executor") ELSE Ok)
    /\ effects' = <<>>
    /\ UNCHANGED <<executor, dirs, files, procs>>

\* executor.rs 306-311: create_dir_all of the workspace.
Executor_create_workspace ==
    /\ Call("create_workspace")
    /\ IF executor_panics(executor)
       THEN /\ Finish(Panic("executor"))
            /\ effects' = <<>>
            /\ UNCHANGED dirs
       ELSE \E made \in create_dir_all(chroot(executor)) :
              IF made
              THEN /\ dirs' = dirs \cup {chroot(executor)}
                   /\ effects' = <<Mkdir(chroot(executor), "ok")>>
                   /\ Finish(Ok)
              ELSE /\ effects' = <<Mkdir(chroot(executor), "failed")>>
                   /\ Finish(Err("WorkspaceCreation", "create_workspace"))
                   /\ UNCHANGED dirs
    /\ UNCHANGED <<executor, files, procs>>

\* executor.rs 219: run_socket is called.
Executor_run_socket ==
    /\ Call("run_socket")
    /\ pc' = "run_socket"
    /\ result' = NoResult
    /\ effects' = <<>>
    /\ UNCHANGED <<executor, dirs, files, procs>>

Executor_destroy_socket == destroy_socket("destroy_socket")

\* A configure_* operation is called with its argument held in c.
Begin(o, c) ==
    /\ CanCall
    /\ nOps' = nOps + 1
    /\ UNCHANGED <<builder, built, env, flight, raised>>
    /\ op' = o
    /\ UNCHANGED arg
    /\ config' = c
    /\ idx' = 0 /\ retries' = 0 /\ child' = 0
    /\ effects' = <<>>
    /\ UNCHANGED <<executor, dirs, files, procs>>

\* The first step of a configure_* call over n entries: an empty list returns
\* Ok at once; otherwise the first request needs self.chroot().
Enter(o, n) ==
    IF n = 0 THEN Finish(Ok)
    ELSE IF executor_panics(executor) THEN Finish(Panic("executor"))
    ELSE pc' = o /\ result' = NoResult

\* executor.rs 270: configure_drives is called with a list of drives.
Executor_configure_drives ==
    \E ds \in SeqsUpTo(DrivePool, MaxEntries) :
        /\ Begin("configure_drives", [NoConfig EXCEPT !.storage = ds])
        /\ Enter("configure_drives", Len(ds))

\* executor.rs 257: configure_boot_source is called with a boot source.
Executor_configure_boot_source ==
    \E b \in KernelPool :
        /\ Begin("configure_boot_source", [NoConfig EXCEPT !.kernel = Some(b)])
        /\ Enter("configure_boot_source", 1)

\* executor.rs 286: configure_network is called with a list of interfaces.
Executor_configure_network ==
    \E is \in SeqsUpTo(IfacePool, MaxEntries) :
        /\ Begin("configure_network", [NoConfig EXCEPT !.interfaces = is])
        /\ Enter("configure_network", Len(is))

Executor_send_action == \E a \in Actions : send_action("send_action", a)

\* An Executor built by hand: without implementation, or with one and the
\* default id or an id of its own.
ExecInit ==
    /\ executor \in { Executor_new,
                      new_with_firecracker(FirecrackerExecutor),
                      with_id(new_with_firecracker(FirecrackerExecutor), "vm1") }
    /\ \E stale \in BOOLEAN :
         /\ dirs = IF stale THEN {StaleDir} ELSE {}
         /\ files = IF stale THEN (StaleSocket :> Socket(0)) @@ HostFiles
                             ELSE HostFiles
    /\ procs = <<>>
    /\ op = "none"
    /\ pc = "idle"
    /\ arg = NoConfig
    /\ config = NoConfig
    /\ idx = 0
    /\ retries = 0
    /\ child = 0
    /\ result = NoResult
    /\ effects = <<>>
    /\ nOps = 0
    /\ builder = NoBuilder
    /\ built = NoBuilt
    /\ env = NoEnv
    /\ flight = NoFlight
    /\ raised = NoRaised

ExecNext ==
    \/ Executor_chroot
    \/ Executor_create_workspace
    \/ Executor_run_socket
    \/ run_socket
    \/ wait_healthy
    \/ wait_healthy_unhealthy
    \/ Executor_destroy_socket
    \/ Executor_send_action
    \/ Executor_configure_drives
    \/ Executor_configure_boot_source
    \/ Executor_configure_network
    \/ configure_drives
    \/ configure_boot_source
    \/ configure_network
    \/ SocketBind

ExecSpec == ExecInit /\ [][ExecNext]_vars

\* The socket file is removed by someone other than this Executor: a second
\* Executor of the same id destroying its socket (executor.rs 98-100 warns of
\* two VMs with one id), or whoever cleans the workspace.
SocketUnlink ==
    \E f \in DOMAIN files :
        /\ files[f].kind = "socket"
        /\ files' = remove_file(f)
        /\ UNCHANGED <<executor, dirs, procs, op, pc, arg, config, idx, retries, child,
                       result, effects, nOps, builder, built, env, flight, raised>>

\* executor.rs 270: configure_drives is called with no drive or with one.
Executor_configure_drives_short ==
    Executor_configure_drives /\ Len(config'.storage) <= 1

\* executor.rs 286: configure_network is called with no interface or with one.
Executor_configure_network_short ==
    Executor_configure_network /\ Len(config'.interfaces) <= 1

\* The Executor used directly in a workspace that others touch as well.
TeardownNext ==
    \/ Executor_chroot
    \/ Executor_create_workspace
    \/ Executor_run_socket
    \/ run_socket
    \/ wait_healthy
    \/ wait_healthy_unhealthy
    \/ Executor_destroy_socket
    \/ Executor_send_action
    \/ Executor_configure_drives_short
    \/ Executor_configure_boot_source
    \/ Executor_configure_network_short
    \/ configure_drives
    \/ configure_boot_source
    \/ configure_network
    \/ SocketBind
    \/ SocketUnlink

\* The Executor is without implementation, or has one and the id of the
\* workspace an earlier instance may have left its socket in.
TeardownInit ==
    /\ ExecInit
    /\ executor_panics(executor) \/ chroot(executor) = StaleDir

TeardownSpec == TeardownInit /\ [][TeardownNext]_vars

\* run_socket blocks its thread: the spawn returns and every sleep of the loop
\* of wait_healthy ends.
FairExecSpec ==
    /\ ExecSpec
    /\ WF_vars(run_socket)
    /\ WF_vars(wait_healthy)
    /\ WF_vars(wait_healthy_unhealthy)


\* ================================================================ claims
\* The requests the last operation has attempted, in order.
Reqs == SelectSeq(effects, LAMBDA e : e.kind = "req")

\* The resources create addresses for Configuration c when every request
\* succeeds: the drives, the boot source, the interfaces.
ExpectedRequests(c) ==
    [i \in 1..Len(c.storage) |-> <<"drives", c.storage[i].drive_id>>]
    \o << <<"boot-source">> >>
    \o [i \in 1..Len(c.interfaces) |->
          <<"network-interfaces", c.interfaces[i].iface_id>>]

CreateReturned == op = "create" /\ pc = "idle"

\* C1: the requests of a create are a prefix of: one PUT per drive in list
\* order, one boot-source PUT, one PUT per interface in list order; a request
\* is sent only after every request before it succeeded, and a create that
\* returns Ok has sent them all.
C1_ConfigurationOrder ==
    op = "create" =>
        LET r == Reqs
            e == ExpectedRequests(arg)
        IN /\ Len(r) <= Len(e)
           /\ \A i \in 1..Len(r) : r[i].src = e[i]
           /\ \A i \in 1..(Len(r) - 1) : r[i].ok = "ok"
           /\ (pc = "idle" /\ result.status = "Ok") =>
                 /\ Len(r) = Len(e)
                 /\ \A i \in 1..Len(r) : r[i].ok = "ok"

C1_Witness ==
    /\ CreateReturned
    /\ result.status = "Ok"
    /\ Len(arg.storage) = 2
    /\ arg.storage[1].drive_id # arg.storage[2].drive_id
    /\ Len(arg.interfaces) = 2
    /\ arg.interfaces[1].iface_id # arg.interfaces[2].iface_id
    /\ Len(Reqs) = 5


\* What create does for Configuration c when nothing fails, in order: the
\* workspace, one copy per drive, the kernel, the initrd, the spawn, the requests
\* (without boot source, create does not get past the workspace).
ExpectedSteps(c) ==
    LET ws == chroot(unwrap(c.executor))
        sock == join(ws, "firecracker.socket")
        k == unwrap(c.kernel)
        step(kind, src, dst) == [kind |-> kind, src |-> src, dst |-> dst]
        req == ExpectedRequests(c)
    IN IF is_none(c.kernel) THEN <<step("mkdir", NoPath, ws)>>
       ELSE
       <<step("mkdir", NoPath, ws)>>
       \o [i \in 1..Len(c.storage) |->
             step("copy", c.storage[i].path_on_host, join(ws, c.storage[i].drive_id))]
       \o <<step("copy", k.kernel_image_path, join(ws, "vmlinux"))>>
       \o (IF is_some(k.initrd_path)
           THEN <<step("copy", unwrap(k.initrd_path), join(ws, "initrd"))>>
           ELSE <<>>)
       \o <<step("spawn", NoPath, sock)>>
       \o [i \in 1..Len(req) |-> step("req", req[i], sock)]

\* The step names under which a failed effect is returned.
StepsOf(kind) ==
    CASE kind = "mkdir" -> {"create_workspace"}
      [] kind = "copy"  -> {"copy_drive", "copy_kernel", "copy_initrd"}
      [] kind = "spawn" -> {"spawn"}
      [] kind = "req"   -> {"configure_drives", "configure_boot_source",
                            "configure_network"}
      [] OTHER          -> {}

\* What effect e has made is still there.
Remains(e) ==
    CASE e.kind = "mkdir" -> e.dst \in dirs
      [] e.kind = "copy"  -> e.dst \in DOMAIN files
      [] e.kind = "spawn" -> procs[e.pid].state = "running"
      [] OTHER            -> TRUE

\* C2: when create returns an error, what it has done is exactly its steps up
\* to the failed one, each earlier step succeeded and the failed one is the
\* last; the workspace, the files copied and the process spawned all remain.
C2_FailureAborts ==
    (CreateReturned /\ result.status = "Err") =>
        IF is_none(arg.executor)
        THEN effects = <<>> /\ result.step = "executor"
        ELSE LET e == ExpectedSteps(arg)
                 n == Len(effects)
             IN /\ 1 <= n /\ n <= Len(e)
                /\ \A i \in 1..n :
                      /\ effects[i].kind = e[i].kind
                      /\ effects[i].src = e[i].src
                      /\ effects[i].dst = e[i].dst
                /\ \A i \in 1..(n - 1) : effects[i].ok = "ok"
                /\ IF result.step = "wait_healthy"
                   THEN effects[n].kind = "spawn" /\ effects[n].ok = "ok"
                   ELSE /\ effects[n].ok # "ok"
                        /\ result.step \in StepsOf(effects[n].kind)
                /\ \A i \in 1..n : effects[i].ok = "ok" => Remains(effects[i])

C2_Witness ==
    /\ CreateReturned
    /\ result.status = "Err"
    /\ result.step = "configure_boot_source"
    /\ Len(arg.storage) = 2
    /\ \E i \in 1..Len(effects) : effects[i].kind = "spawn" /\ Remains(effects[i])

\* C3: a create called with a Configuration without executor returns the
\* Setup error in the same step, with no effect: no directory, file or process
\* changes, nothing is sent, and the Machine keeps its executor.
C3_NoExecutor ==
    [][(op' = "create" /\ nOps' = nOps + 1 /\ is_none(arg.executor)) =>
          /\ pc' = "idle"
          /\ result' = Err("Setup", "executor")
          /\ effects' = <<>>
          /\ UNCHANGED <<executor, dirs, files, procs>>]_vars

C3_Witness ==
    /\ CreateReturned
    /\ is_none(arg.executor)
    /\ result = Err("Setup", "executor")
    /\ executor = Executor_new


\* C4: a create called with an executor but no boot source returns an error
\* before the workspace is created.
C4_MissingBootSourceFailsFirst ==
    (CreateReturned /\ is_some(arg.executor) /\ is_none(arg.kernel)) =>
        /\ result.status = "Err"
        /\ \A i \in 1..Len(effects) :
              ~(effects[i].kind = "mkdir" /\ effects[i].ok = "ok")

\* C5: no operation of Machine ends in a panic.
C5_NoPanic == result.status # "Panic"

\* C6: every request is attempted while the process handle is set.
C6_RequestsOnlyWhenHealthy ==
    \A i \in 1..Len(effects) : effects[i].kind = "req" => effects[i].running

\* C6, as amended: create attempts a request only after its run_socket has
\* spawned the process and set the handle; start and stop, which do not look
\* at the handle, attempt their request whenever the executor has an
\* implementation.
C6_CreateConfiguresAfterRunSocket ==
    /\ op = "create" =>
          \A i \in 1..Len(effects) :
              effects[i].kind = "req" =>
                  /\ effects[i].running
                  /\ \E j \in 1..(i - 1) :
                        effects[j].kind = "spawn" /\ effects[j].ok = "ok"
    /\ (op \in {"start", "stop"} /\ pc = "idle" /\ result.status # "Panic") =>
          Len(Reqs) = 1

C6_Witness ==
    /\ op = "create"
    /\ Len(Reqs) >= 1
    /\ Reqs[1].running
    /\ is_running(executor)


\* How many effects of kind k the last operation has made.
Count(k) == Len(SelectSeq(effects, LAMBDA e : e.kind = k))

\* While run_socket waits: at most MaxRetries checks have failed, and the
\* operations of the Executor never make the same attempt twice (a list call
\* makes at most one request per entry).
C7_Bounded ==
    /\ pc = "wait_healthy" => (retries \in 0..MaxRetries /\ child \in 1..Len(procs))
    /\ \A k \in {"mkdir", "spawn", "kill", "remove"} : Count(k) <= 1
    /\ Count("req") <= IF op = "configure_drives" THEN Len(config.storage)
                       ELSE IF op = "configure_network" THEN Len(config.interfaces)
                       ELSE 1

\* One step taken while run_socket waits: it leaves the loop with Ok exactly
\* when a check within the budget sees the file, with Unhealthy exactly when
\* the budget is used up (whether or not the file is there by then), and a
\* check that stays in the loop has not seen the file and counts one retry.
C7_Step ==
    pc = "wait_healthy" =>
        LET seen == socket_path(executor) \in DOMAIN files
        IN /\ pc' # "wait_healthy" =>
                 IF seen /\ retries < MaxRetries
                 THEN /\ result' = Ok
                      /\ executor'.socket_process = Some(child)
                 ELSE /\ retries = MaxRetries
                      /\ result' = Err("Unhealthy", "wait_healthy")
                      /\ executor' = executor
           /\ (pc' = "wait_healthy" /\ retries' # retries) =>
                 /\ ~seen
                 /\ retries < MaxRetries
                 /\ retries' = retries + 1

\* C7: run_socket always returns; it checks for the socket file at most
\* MaxRetries times, returns Ok at the first check that sees the file and
\* Unhealthy once MaxRetries checks have not seen it; a file that appears
\* after the last check is not observed; nothing else is tried twice.
C7_RunSocketTerminates ==
    /\ []C7_Bounded
    /\ [][C7_Step]_vars
    /\ (pc \in {"run_socket", "wait_healthy"}) ~> (pc = "idle")

C7_Witness ==
    /\ op = "run_socket"
    /\ pc = "wait_healthy"
    /\ retries = MaxRetries
    /\ socket_path(executor) \in DOMAIN files

\* C8: when run_socket has returned Unhealthy, the process it spawned is
\* running, and run_socket has neither killed a process nor removed a file.
C8_UnhealthyLeavesProcess ==
    (pc = "idle" /\ result.status = "Err" /\ result.step = "wait_healthy") =>
        LET n == Len(effects)
        IN /\ n >= 1
           /\ effects[n].kind = "spawn"
           /\ effects[n].ok = "ok"
           /\ procs[effects[n].pid].state = "running"
           /\ \A i \in 1..n : effects[i].kind \notin {"kill", "remove"}

C8_Witness ==
    /\ op = "run_socket"
    /\ pc = "idle"
    /\ result = Err("Unhealthy", "wait_healthy")
    /\ procs # <<>>
    /\ procs[Len(procs)].state = "running"
    /\ ~is_running(executor)

\* One step of a run_socket called while a file is at the socket path: the
\* file stays, no check fails, and the step that ends the wait returns Ok with
\* the spawned process as handle and leaves the processes as they are.
C9_Step ==
    /\ (pc = "run_socket" /\ ~executor_panics(executor)
          /\ socket_path(executor) \in DOMAIN files /\ pc' = "wait_healthy") =>
          /\ retries' = 0
          /\ socket_path(executor) \in DOMAIN files'
    /\ (pc = "wait_healthy" /\ socket_path(executor) \in DOMAIN files
          /\ retries < MaxRetries) =>
          /\ socket_path(executor) \in DOMAIN files'
          /\ pc' = pc => retries' = retries
          /\ pc' # pc =>
                /\ result' = Ok
                /\ executor'.socket_process = Some(child)
                /\ procs' = procs

\* C9: with a file at the socket path when run_socket is called, run_socket
\* reports healthy at its first check and records the handle of the process
\* it spawned, whether or not that process binds the socket.
C9_StaleSocketIsHealthy == [][C9_Step]_vars

C9_Witness ==
    /\ op = "run_socket"
    /\ pc = "idle"
    /\ result = Ok
    /\ is_running(executor)
    /\ ~procs[unwrap(executor.socket_process)].bound
    /\ files[socket_path(executor)].pid # unwrap(executor.socket_process)

\* C10: kill and destroy_socket, called when no process has ever been
\* spawned, return the Socket error with no effect and leave the handle absent.
C10_DestroyBeforeRun ==
    (op \in {"kill", "destroy_socket"} /\ pc = "idle" /\ procs = <<>>) =>
        /\ result = Err(Raise(op, "Socket"), "socket_process")
        /\ effects = <<>>
        /\ ~is_running(executor)


\* A step that calls destroy_socket, directly or through Machine::kill.
Destroys == op' \in {"kill", "destroy_socket"} /\ nOps' = nOps + 1

\* One step of C11: a destroy that returns Ok, and a destroy called when the
\* operation before it was a destroy that returned Ok.
C11_Step ==
    /\ (Destroys /\ result'.status = "Ok") =>
          /\ is_running(executor)
          /\ LET pid == unwrap(executor.socket_process)
                 sock == socket_path(executor)
             IN /\ effects' = <<Kill(pid, "ok"), Remove(sock, "ok")>>
                /\ procs'[pid].state = "killed"
                /\ sock \notin DOMAIN files'
                /\ ~is_running(executor')
    /\ (Destroys /\ op \in {"kill", "destroy_socket"} /\ result.status = "Ok") =>
          /\ result' = Err(Raise(op', "Socket"), "socket_process")
          /\ effects' = <<>>
          /\ procs' = procs
          /\ files' = files
          /\ ~is_running(executor')

\* C11: a destroy_socket that returns Ok has killed the child and then removed
\* the socket file, and leaves no socket file and no handle; a destroy_socket
\* or kill called next returns the Socket error, with no panic and no kill.
C11_DestroyThenDestroy == [][C11_Step]_vars

C11_Witness ==
    /\ op = "kill"
    /\ pc = "idle"
    /\ result = Err(Raise("kill", "Socket"), "socket_process")
    /\ effects = <<>>
    /\ \E p \in 1..Len(procs) : procs[p].state = "killed"
    /\ ~is_running(executor)


\* The requests a list call (configure_drives, configure_network) makes for
\* its argument when every request succeeds: resource and body, in list order.
ListRequests ==
    IF op = "configure_drives"
    THEN [i \in 1..Len(config.storage) |->
            [src |-> <<"drives", config.storage[i].drive_id>>,
             body |-> to_string_drive(config.storage[i])]]
    ELSE [i \in 1..Len(config.interfaces) |->
            [src |-> <<"network-interfaces", config.interfaces[i].iface_id>>,
             body |-> to_string_network_interface(config.interfaces[i])]]

\* C12: configure_drives and configure_network send one request per entry, in
\* list order, each only after the requests before it succeeded; a call that
\* returns an error has failed at its last request, the requests before it
\* were applied, and no request was made for a later entry; a call that
\* returns Ok has applied every entry.
C12_ListCallsStopAtFailure ==
    (op \in {"configure_drives", "configure_network"} /\ result.status # "Panic") =>
        LET r == Reqs
            e == ListRequests
            n == Len(Reqs)
        IN /\ effects = r
           /\ n <= Len(e)
           /\ \A i \in 1..n : r[i].src = e[i].src /\ r[i].body = e[i].body
           /\ \A i \in 1..(n - 1) : r[i].ok = "ok"
           /\ (pc = "idle" /\ result.status = "Err") =>
                 /\ n >= 1
                 /\ r[n].ok # "ok"
                 /\ result = Err(send_request_error(r[n].ok), op)
           /\ (pc = "idle" /\ result.status = "Ok") =>
                 /\ n = Len(e)
                 /\ \A i \in 1..n : r[i].ok = "ok"
           /\ pc # "idle" => n < Len(e)

C12_Witness ==
    /\ op = "configure_drives"
    /\ pc = "idle"
    /\ result.status = "Err"
    /\ Len(config.storage) = 3
    /\ Len(Reqs) = 2
    /\ Reqs[1].ok = "ok"
    /\ Reqs[2].src = <<"drives", config.storage[2].drive_id>>


\* The operations of the Executor that send requests.
RequestCalls ==
    {"configure_boot_source", "configure_drives", "configure_network", "send_action"}

\* How many requests a call makes when none fails.
RequestsDue ==
    CASE op = "configure_drives"  -> Len(config.storage)
      [] op = "configure_network" -> Len(config.interfaces)
      [] OTHER                    -> 1

ActionOf(o) == IF o = "start" THEN "InstanceStart" ELSE "SendCtrlAltDel"

\* One call of start or stop: one request to /actions carrying the action of
\* the operation, and nothing else.
C14_Step ==
    (op' \in {"start", "stop"} /\ nOps' = nOps + 1) =>
        /\ Len(effects') = 1
        /\ effects'[1].kind = "req"
        /\ effects'[1].src = <<"actions">>
        /\ effects'[1].body = <<"action_type", ActionOf(op')>>
        /\ UNCHANGED <<executor, procs, files, dirs>>

\* C14: start sends exactly one request, InstanceStart to /actions, and stop
\* exactly one, SendCtrlAltDel; neither sends another request, spawns or kills
\* a process, or changes the handle.
C14_StartStopSendOneAction == [][C14_Step]_vars


\* One step of C15: start, stop and kill leave the directories and every file
\* but the socket as they are, and a file disappears only in a kill, and then
\* it is the socket file of the Machine's executor.
C15_Step ==
    /\ (op' \in {"start", "stop", "kill"} /\ nOps' = nOps + 1) =>
          /\ dirs' = dirs
          /\ DOMAIN files' \subseteq DOMAIN files
          /\ \A f \in DOMAIN files' : files'[f] = files[f]
    /\ DOMAIN files \ DOMAIN files' # {} =>
          /\ op' = "kill"
          /\ nOps' = nOps + 1
          /\ DOMAIN files \ DOMAIN files' = {socket_path(executor)}

\* C15: start, stop and kill perform no workspace cleanup: the workspace
\* directory and the staged kernel, initrd and drive files stay as they are;
\* the only file ever removed is the socket file, and only by a kill.
C15_NoWorkspaceCleanup == [][C15_Step]_vars

C15_Witness ==
    /\ op = "kill"
    /\ pc = "idle"
    /\ result = Ok
    /\ chroot(executor) \in dirs
    /\ socket_path(executor) \notin DOMAIN files
    /\ join(chroot(executor), "vmlinux") \in DOMAIN files
    /\ join(chroot(executor), "initrd") \in DOMAIN files
    /\ \E d \in DrivePool : join(chroot(executor), d.drive_id) \in DOMAIN files


\* One step of C16: a call of create_workspace on an executor that has an
\* implementation (without one there is no workspace path). On a workspace
\* that exists it returns Ok and changes nothing; when it returns Ok the
\* workspace exists and nothing else has changed; when it fails nothing has
\* changed. No step of any operation removes a directory.
C16_Step ==
    /\ (op' = "create_workspace" /\ nOps' = nOps + 1 /\ ~executor_panics(executor)) =>
          /\ result'.status \in {"Ok", "Err"}
          /\ chroot(executor) \in dirs => (result' = Ok /\ dirs' = dirs)
          /\ result' = Ok => dirs' = dirs \cup {chroot(executor)}
          /\ result'.status = "Err" =>
                (result'.error = "WorkspaceCreation" /\ dirs' = dirs)
          /\ UNCHANGED <<executor, files, procs>>
    /\ dirs \subseteq dirs'

\* C16: create_workspace is idempotent: a call on a workspace that an earlier
\* call made (whatever was called in between) returns Ok and leaves the
\* workspace and its contents as they were.
C16_CreateWorkspaceIdempotent == [][C16_Step]_vars

C16_Witness ==
    /\ op = "create_workspace"
    /\ pc = "idle"
    /\ result = Ok
    /\ nOps = 3
    /\ executor.id = "default"
    /\ procs # <<>>
    /\ chroot(executor) \in dirs
    /\ socket_path(executor) \in DOMAIN files


\* The requests of the last operation that address a drive, in order.
DriveReqs == SelectSeq(effects, LAMBDA e : e.kind = "req" /\ e.src[1] = "drives")

\* C17: in a create, the copy of drive i is the i-th effect after the
\* workspace, from the drive's host path to <workspace>/<drive_id>; a drive
\* whose copy succeeded is rewritten to the path in the workspace and its file
\* is there, a drive not yet copied keeps its host path; a failed copy is the
\* last effect and create has returned the Setup error; the request sent for
\* drive i carries the path in the workspace, never the host path.
C17_DrivesCopiedAndRewritten ==
    (op = "create" /\ is_some(arg.executor)) =>
        LET ws == chroot(executor)
            n == Len(effects)
            new_path(i) == join(ws, arg.storage[i].drive_id)
            r == DriveReqs
        IN /\ Len(config.storage) = Len(arg.storage)
           /\ \A i \in 1..Len(arg.storage) :
                 /\ config.storage[i].drive_id = arg.storage[i].drive_id
                 /\ n >= 1 + i =>
                       /\ effects[1 + i].kind = "copy"
                       /\ effects[1 + i].src = arg.storage[i].path_on_host
                       /\ effects[1 + i].dst = new_path(i)
                       /\ \A j \in 1..(i - 1) : effects[1 + j].ok = "ok"
                 /\ (n >= 1 + i /\ effects[1 + i].ok = "ok") =>
                       /\ config.storage[i].path_on_host = new_path(i)
                       /\ new_path(i) \in DOMAIN files
                 /\ (n >= 1 + i /\ effects[1 + i].ok # "ok") =>
                       /\ n = 1 + i
                       /\ pc = "idle"
                       /\ result = Err("Setup", "copy_drive")
                 /\ (n < 1 + i \/ effects[1 + i].ok # "ok") =>
                       config.storage[i].path_on_host = arg.storage[i].path_on_host
           /\ Len(r) <= Len(arg.storage)
           /\ \A i \in 1..Len(r) :
                 /\ r[i].body = to_string_drive([drive_id |-> arg.storage[i].drive_id,
                                                 path_on_host |-> new_path(i)])
                 /\ r[i].body[4] # arg.storage[i].path_on_host

C17_Witness ==
    /\ CreateReturned
    /\ result = Ok
    /\ Len(arg.storage) = 2
    /\ arg.storage[1].drive_id # arg.storage[2].drive_id
    /\ Len(DriveReqs) = 2
    /\ DriveReqs[2].body[4] = join(chroot(executor), arg.storage[2].drive_id)
    /\ config.storage[2].path_on_host \in DOMAIN files


\* C18: in a create that has a boot source, the effect after the last drive
\* copy is the copy of the kernel image to <workspace>/vmlinux, followed by the
\* copy of the initrd to <workspace>/initrd exactly when the boot source has an
\* initrd path; the process is spawned only after these copies succeeded, and
\* a failed copy is the last effect of a create that returned the Setup error.
C18_KernelAndInitrdStaged ==
    (op = "create" /\ is_some(arg.executor) /\ is_some(arg.kernel)) =>
        LET ws == chroot(executor)
            k == unwrap(arg.kernel)
            n == Len(effects)
            nd == Len(arg.storage)
            ni == IF is_some(k.initrd_path) THEN 1 ELSE 0
            staged(i) == effects[i].kind = "copy" /\ effects[i].ok = "ok"
        IN /\ n >= nd + 2 =>
                 /\ effects[nd + 2].kind = "copy"
                 /\ effects[nd + 2].src = k.kernel_image_path
                 /\ effects[nd + 2].dst = join(ws, "vmlinux")
                 /\ effects[nd + 2].ok = "ok" =>
                       files[join(ws, "vmlinux")] = Image(k.kernel_image_path[2])
           /\ (n >= nd + 3 /\ ni = 1) =>
                 /\ effects[nd + 3].kind = "copy"
                 /\ effects[nd + 3].src = unwrap(k.initrd_path)
                 /\ effects[nd + 3].dst = join(ws, "initrd")
                 /\ effects[nd + 3].ok = "ok" =>
                       files[join(ws, "initrd")] = Image(unwrap(k.initrd_path)[2])
           /\ \A i \in 1..n :
                 /\ (effects[i].kind = "copy" /\ effects[i].dst = join(ws, "initrd")) =>
                       (ni = 1 /\ i = nd + 3)
                 /\ (effects[i].kind = "copy" /\ effects[i].dst = join(ws, "vmlinux")) =>
                       i = nd + 2
                 /\ effects[i].kind = "spawn" =>
                       /\ i = nd + 3 + ni
                       /\ \A j \in 2..(i - 1) : staged(j)
                 /\ (i \in (nd + 2)..(nd + 2 + ni) /\ effects[i].ok # "ok") =>
                       /\ i = n
                       /\ pc = "idle"
                       /\ result = Err("Setup", IF i = nd + 2 THEN "copy_kernel"
                                                ELSE "copy_initrd")
           /\ (n = nd + 1 /\ \A j \in 1..n : effects[j].ok = "ok") =>
                 pc \in {"copy_drive", "copy_kernel"}
           /\ (n = nd + 2 /\ ni = 1 /\ staged(n)) => pc = "copy_initrd"

C18_Witness ==
    /\ CreateReturned
    /\ result = Ok
    /\ Len(arg.storage) = 2
    /\ is_some(unwrap(arg.kernel).initrd_path)
    /\ join(chroot(executor), "vmlinux") \in DOMAIN files
    /\ join(chroot(executor), "initrd") \in DOMAIN files
    /\ \E i \in 1..Len(effects) : effects[i].kind = "spawn" /\ effects[i].ok = "ok"


\* =============================================================== builders
\* A path component that is not valid Unicode (on Unix a PathBuf holds bytes).
NotUnicode == "\\xFF"

\* OsString::into_string: the String when every byte is valid Unicode.
into_string(p) ==
    IF \A i \in 1..Len(p) : p[i] # NotUnicode THEN Some(p) ELSE None

\* The number of calls made in one chain of with_* calls.
MaxCalls == 4

\* A call in the log of calls: what was set, and the value given.
Called(k, v) == [kind |-> k, value |-> v]

\* The values callers give to the setters.
Ids == {"rootfs", "eth0"}
Texts == {"tap0", "tap1"}
PathBufs == {HostPath("rootfs.ext4"), HostPath(NotUnicode)}
Cids == {3}

\* stringify!(self.<field>)
stringify(field) == "self." \o field

BuildOk(v) == [status |-> "Ok", error |-> "", field |-> "", value |-> Some(v)]
BuildErr(e, f) == [status |-> "Err", error |-> e, field |-> f, value |-> None]
BuildPanic == [status |-> "Panic", error |-> "", field |-> "", value |-> None]

\* builder/mod.rs 61-66: Ok(()) for Some, MissingRequiredField(key) for None.
assert_not_none(key, value) ==
    IF is_some(value) THEN BuildOk(<<>>) ELSE BuildErr("MissingRequiredField", key)

\* ---- DriveBuilder
DriveBuilder_new ==
    [kind |-> "DriveBuilder", drive_id |-> None, path_on_host |-> None,
     is_root_device |-> FALSE, is_read_only |-> FALSE]

\* A variant of DriveBuilder_try_build: the path is checked before the id.
DriveBuilder_try_build_path_first(b) ==
    LET a1 == assert_not_none(stringify("path_on_host"), b.path_on_host)
        a2 == assert_not_none(stringify("drive_id"), b.drive_id)
    IN IF a1.status = "Err" THEN a1
       ELSE IF a2.status = "Err" THEN a2
       ELSE IF is_none(into_string(unwrap(b.path_on_host))) THEN BuildPanic
       ELSE BuildOk([drive_id |-> unwrap(b.drive_id),
                     path_on_host |-> unwrap(into_string(unwrap(b.path_on_host))),
                     is_root_device |-> b.is_root_device,
                     is_read_only |-> b.is_read_only,
                     cache_type |-> None,
                     partuuid |-> None,
                     rate_limiter |-> None,
                     io_engine |-> None])

\* drive.rs 47-66: the two checks, then the conversion of the path to a String.
DriveBuilder_try_build(b) ==
    LET a1 == assert_not_none(stringify("drive_id"), b.drive_id)
        a2 == assert_not_none(stringify("path_on_host"), b.path_on_host)
    IN IF a1.status = "Err" THEN a1
       ELSE IF a2.status = "Err" THEN a2
       ELSE IF is_none(into_string(unwrap(b.path_on_host))) THEN BuildPanic
       ELSE BuildOk([drive_id |-> unwrap(b.drive_id),
                     path_on_host |-> unwrap(into_string(unwrap(b.path_on_host))),
                     is_root_device |-> b.is_root_device,
                     is_read_only |-> b.is_read_only,
                     cache_type |-> None,
                     partuuid |-> None,
                     rate_limiter |-> None,
                     io_engine |-> None])

\* ---- KernelBuilder
KernelBuilder_new ==
    [kind |-> "KernelBuilder", boot_args |-> None, initrd_path |-> None,
     kernel_image_path |-> None]

\* kernel.rs 37-44
KernelBuilder_try_build(b) ==
    LET a1 == assert_not_none(stringify("kernel_image_path"), b.kernel_image_path)
    IN IF a1.status = "Err" THEN a1
       ELSE BuildOk([kernel_image_path |-> unwrap(b.kernel_image_path),
                     initrd_path |-> b.initrd_path,
                     boot_args |-> b.boot_args])

\* ---- NetworkInterfaceBuilder
NetworkInterfaceBuilder_new ==
    [kind |-> "NetworkInterfaceBuilder", guest_mac |-> None, host_dev_name |-> None,
     iface_id |-> None, rx_rate_limiter |-> None, tx_rate_limiter |-> None]

\* network_interface.rs 57-67
NetworkInterfaceBuilder_try_build(b) ==
    LET a1 == assert_not_none(stringify("host_dev_name"), b.host_dev_name)
        a2 == assert_not_none(stringify("iface_id"), b.iface_id)
    IN IF a1.status = "Err" THEN a1
       ELSE IF a2.status = "Err" THEN a2
       ELSE BuildOk([guest_mac |-> b.guest_mac,
                     host_dev_name |-> unwrap(b.host_dev_name),
                     iface_id |-> unwrap(b.iface_id),
                     rx_rate_limiter |-> b.rx_rate_limiter,
                     tx_rate_limiter |-> b.tx_rate_limiter])

\* ---- VsockBuilder
VsockBuilder_new == [kind |-> "VsockBuilder", guest_cid |-> None, uds_path |-> None]

\* vsock.rs 38-46
VsockBuilder_try_build(b) ==
    LET a1 == assert_not_none(stringify("guest_cid"), b.guest_cid)
        a2 == assert_not_none(stringify("uds_path"), b.uds_path)
    IN IF a1.status = "Err" THEN a1
       ELSE IF a2.status = "Err" THEN a2
       ELSE BuildOk([guest_cid |-> unwrap(b.guest_cid),
                     uds_path |-> unwrap(b.uds_path),
                     vsock_id |-> None])

\* ---- FirecrackerExecutorBuilder
FirecrackerExecutorBuilder_new ==
    [kind |-> "FirecrackerExecutorBuilder", chroot |-> None, exec_binary |-> None]

\* builder/executor.rs 121-129
FirecrackerExecutorBuilder_try_build(b) ==
    LET a1 == assert_not_none(stringify("chroot"), b.chroot)
        a2 == assert_not_none(stringify("exec_binary"), b.exec_binary)
    IN IF a1.status = "Err" THEN a1
       ELSE IF a2.status = "Err" THEN a2
       ELSE BuildOk(new_with_firecracker([chroot |-> unwrap(b.chroot),
                                          exec_binary |-> unwrap(b.exec_binary)]))


\* ---- the builders as a system: a caller makes a builder, calls setters in
\* any order and number, and calls try_build; `effects` holds the calls made
\* on the builder, in order.
mvars == <<executor, dirs, files, procs, op, pc, arg, config, idx, retries,
           child, result, effects, nOps, env, flight, raised>>

\* What a call on a builder leaves alone.
bvars == <<executor, dirs, files, procs, op, pc, arg, config, idx, retries,
           child, result, nOps, env, flight, raised>>

\* The builder becomes b; a result of an earlier try_build is of no use.
Becomes(b) == builder' = b /\ built' = NoBuilt /\ UNCHANGED bvars

\* One more call in the chain: v was given for f.
Logged(f, v) ==
    /\ Len(effects) < MaxCalls
    /\ effects' = Append(effects, Called(f, v))

\* A variant of Set: a field that holds a value keeps it.
Set_keeps_first(k, f, v) ==
    /\ builder.kind = k
    /\ Becomes(IF is_some(builder[f]) THEN builder
               ELSE [builder EXCEPT ![f] = Some(v)])
    /\ Logged(f, v)

\* A setter of builder kind k: field f becomes Some(v).
Set(k, f, v) ==
    /\ builder.kind = k
    /\ Becomes([builder EXCEPT ![f] = Some(v)])
    /\ Logged(f, v)

\* try_build of builder kind k returns r; the builder is kept for reference.
Build(k, r) ==
    /\ builder.kind = k
    /\ built = NoBuilt
    /\ built' = r
    /\ UNCHANGED builder
    /\ UNCHANGED mvars

Builder_new ==
    \E b \in {DriveBuilder_new, KernelBuilder_new, NetworkInterfaceBuilder_new,
              VsockBuilder_new, FirecrackerExecutorBuilder_new} :
        Becomes(b) /\ effects' = <<>>

\* drive.rs 25-28
with_drive_id == \E v \in Ids : Set("DriveBuilder", "drive_id", v)

\* drive.rs 30-33
with_path_on_host == \E v \in PathBufs : Set("DriveBuilder", "path_on_host", v)

\* kernel.rs 20-23
with_boot_args == \E v \in Texts : Set("KernelBuilder", "boot_args", v)

\* kernel.rs 25-28
with_initrd_path == \E v \in Texts : Set("KernelBuilder", "initrd_path", v)

\* kernel.rs 30-33
with_kernel_image_path == \E v \in Texts : Set("KernelBuilder", "kernel_image_path", v)

\* network_interface.rs 24-27
with_guest_mac == \E v \in Texts : Set("NetworkInterfaceBuilder", "guest_mac", v)

\* network_interface.rs 29-32
with_host_dev_name == \E v \in Texts : Set("NetworkInterfaceBuilder", "host_dev_name", v)

\* network_interface.rs 34-37
with_iface_id == \E v \in Ids : Set("NetworkInterfaceBuilder", "iface_id", v)

\* network_interface.rs 39-45
with_rx_rate_limiter == \E v \in Texts : Set("NetworkInterfaceBuilder", "rx_rate_limiter", v)

\* network_interface.rs 47-53
with_tx_rate_limiter == \E v \in Texts : Set("NetworkInterfaceBuilder", "tx_rate_limiter", v)

\* vsock.rs 26-29
with_guest_cid == \E v \in Cids : Set("VsockBuilder", "guest_cid", v)

\* vsock.rs 31-34
with_uds_path == \E v \in Texts : Set("VsockBuilder", "uds_path", v)

\* builder/executor.rs 109-112
with_chroot == \E v \in {FirecrackerExecutor.chroot} : Set("FirecrackerExecutorBuilder", "chroot", v)

\* builder/executor.rs 114-117
with_exec_binary == \E v \in {FirecrackerExecutor.exec_binary} : Set("FirecrackerExecutorBuilder", "exec_binary", v)

\* drive.rs 35-38
as_root_device ==
    /\ builder.kind = "DriveBuilder"
    /\ Becomes([builder EXCEPT !.is_root_device = TRUE])
    /\ Logged("is_root_device", TRUE)

\* drive.rs 40-43
as_read_only ==
    /\ builder.kind = "DriveBuilder"
    /\ Becomes([builder EXCEPT !.is_read_only = TRUE])
    /\ Logged("is_read_only", TRUE)

try_build_DriveBuilder == Build("DriveBuilder", DriveBuilder_try_build(builder))

try_build_KernelBuilder == Build("KernelBuilder", KernelBuilder_try_build(builder))

try_build_NetworkInterfaceBuilder == Build("NetworkInterfaceBuilder", NetworkInterfaceBuilder_try_build(builder))

try_build_VsockBuilder == Build("VsockBuilder", VsockBuilder_try_build(builder))

try_build_FirecrackerExecutorBuilder == Build("FirecrackerExecutorBuilder", FirecrackerExecutorBuilder_try_build(builder))

BuildInit ==
    /\ executor = Executor_new
    /\ dirs = {}
    /\ files = HostFiles
    /\ procs = <<>>
    /\ op = "none"
    /\ pc = "idle"
    /\ arg = NoConfig
    /\ config = NoConfig
    /\ idx = 0
    /\ retries = 0
    /\ child = 0
    /\ result = NoResult
    /\ effects = <<>>
    /\ nOps = 0
    /\ builder = NoBuilder
    /\ built = NoBuilt
    /\ env = NoEnv
    /\ flight = NoFlight
    /\ raised = NoRaised

BuildNext ==
    \/ Builder_new
    \/ with_drive_id
    \/ with_path_on_host
    \/ with_boot_args
    \/ with_initrd_path
    \/ with_kernel_image_path
    \/ with_guest_mac
    \/ with_host_dev_name
    \/ with_iface_id
    \/ with_rx_rate_limiter
    \/ with_tx_rate_limiter
    \/ with_guest_cid
    \/ with_uds_path
    \/ with_chroot
    \/ with_exec_binary
    \/ as_root_device
    \/ as_read_only
    \/ try_build_DriveBuilder
    \/ try_build_KernelBuilder
    \/ try_build_NetworkInterfaceBuilder
    \/ try_build_VsockBuilder
    \/ try_build_FirecrackerExecutorBuilder

BuildSpec == BuildInit /\ [][BuildNext]_vars


\* The required fields of each builder, in the order the claims give them.
RequiredFields(k) ==
    CASE k = "KernelBuilder"              -> <<"kernel_image_path">>
      [] k = "DriveBuilder"               -> <<"drive_id", "path_on_host">>
      [] k = "NetworkInterfaceBuilder"    -> <<"host_dev_name", "iface_id">>
      [] k = "VsockBuilder"               -> <<"guest_cid", "uds_path">>
      [] k = "FirecrackerExecutorBuilder" -> <<"chroot", "exec_binary">>

\* The required fields of the builder that are unset, in that order.
Unset == SelectSeq(RequiredFields(builder.kind), LAMBDA f : is_none(builder[f]))

\* The fields of the object try_build returned (the Executor holds them in
\* its implementation).
Fields(v) == IF builder.kind = "FirecrackerExecutorBuilder" THEN unwrap(v.firecracker) ELSE v

\* C19: try_build returns the finished object exactly when every required
\* field was set, whatever was set besides; the object holds the values set.
C19_TryBuildIffRequired ==
    built # NoBuilt =>
        /\ built.status = "Ok" <=> Unset = <<>>
        /\ built.status = "Ok" =>
              LET o == Fields(unwrap(built.value))
                  req == {RequiredFields(builder.kind)[i] :
                            i \in 1..Len(RequiredFields(builder.kind))}
              IN \A f \in DOMAIN builder \ {"kind"} :
                    o[f] = IF f \in req THEN unwrap(builder[f]) ELSE builder[f]

\* C20: when a required field is unset, try_build returns MissingRequiredField
\* with the text 'self.<field>' of the first unset field in the check order
\* (the only one, when one is unset), and no object.
C20_FirstMissingFieldNamed ==
    (built # NoBuilt /\ Unset # <<>>) =>
        /\ built.status = "Err"
        /\ built.error = "MissingRequiredField"
        /\ built.field = "self." \o Unset[1]
        /\ built.value = None

C20_Witness ==
    /\ builder.kind = "DriveBuilder"
    /\ builder.is_read_only
    /\ Len(Unset) = 2
    /\ built = BuildErr("MissingRequiredField", "self.drive_id")


\* ------------------------------------------------------ binary discovery
\* The value of PATH is a string; here it is the sequence of its pieces, a
\* piece being a separator or a stretch of characters without one.
MaxPathTokens == 3
Sep == ":"
PathTokens == {"/usr/bin", "/opt/bin", Sep}

\* std::env::split_paths: the stretches between the separators, in order, the
\* empty ones included; each is a path.
RECURSIVE split_paths(_)
split_paths(s) ==
    IF \A i \in 1..Len(s) : s[i] # Sep THEN <<s>>
    ELSE LET k == CHOOSE i \in 1..Len(s) :
                      s[i] = Sep /\ \A j \in 1..(i - 1) : s[j] # Sep
         IN <<SubSeq(s, 1, k - 1)>> \o split_paths(SubSeq(s, k + 1, Len(s)))

Binary == [kind |-> "binary", data |-> "", pid |-> 0]

\* Where a relative path leads from the current directory: "." names it.
resolve(p) == SelectSeq(p, LAMBDA c : c # ".")

\* Path::is_file: the path names an existing regular file.
is_file(p) ==
    /\ resolve(p) \in DOMAIN files
    /\ files[resolve(p)].kind # "socket"

\* Option::or_else
or_else(o, f) == IF is_some(o) THEN o ELSE f

CurrentDirectoryBinary == <<".", "firecracker">>

\* builder/executor.rs 29-42
find_binary_from_path ==
    IF is_none(env.PATH) THEN None
    ELSE LET found == SelectSeq(split_paths(unwrap(env.PATH)),
                                LAMBDA d : is_file(join(d, "firecracker")))
         IN IF found = <<>> THEN None ELSE Some(join(found[1], "firecracker"))

\* builder/executor.rs 46-52
find_binary_from_current_directory ==
    IF is_file(CurrentDirectoryBinary) THEN Some(CurrentDirectoryBinary) ELSE None

\* builder/executor.rs 56-68: a set variable naming no file is warned about.
find_binary_from_env_location ==
    IF is_some(env.FIRECRACKER_LOCATION) /\ is_file(unwrap(env.FIRECRACKER_LOCATION))
    THEN env.FIRECRACKER_LOCATION
    ELSE None

BinaryNotFoundHelp == "Check if FIRECRACKER_LOCATION environment variable is correctly set. For more information check https://docs.rs/firepilot/ "

\* A variant of determine_binary_location that searches PATH first.
determine_binary_location_path_first ==
    LET p == or_else(or_else(find_binary_from_path, find_binary_from_env_location),
                     find_binary_from_current_directory)
    IN IF is_some(p) THEN BuildOk(unwrap(p))
       ELSE BuildErr("BinaryNotFound", BinaryNotFoundHelp)

\* builder/executor.rs 78-84
determine_binary_location ==
    LET p == or_else(or_else(find_binary_from_env_location, find_binary_from_path),
                     find_binary_from_current_directory)
    IN IF is_some(p) THEN BuildOk(unwrap(p))
       ELSE BuildErr("BinaryNotFound", BinaryNotFoundHelp)

\* src/lib.rs 139-145: the same search; the error carries no text.
Firecracker_determine_binary_location ==
    LET p == or_else(or_else(find_binary_from_env_location, find_binary_from_path),
                     find_binary_from_current_directory)
    IN IF is_some(p) THEN BuildOk(unwrap(p)) ELSE BuildErr("BinaryNotFound", "")

\* What the discovery actions leave alone.
lvars == <<executor, files, procs, pc, arg, config, idx, retries, child,
           result, effects, nOps, flight, raised>>

\* A caller asks for the location.
FirecrackerExecutorBuilder_determine_binary_location ==
    /\ op = "none"
    /\ op' = "determine_binary_location"
    /\ built' = determine_binary_location
    /\ UNCHANGED <<builder, dirs, env>>
    /\ UNCHANGED lvars

\* builder/executor.rs 98-107
auto ==
    /\ op = "none"
    /\ op' = "auto"
    /\ LET binary_path == determine_binary_location
       IN IF binary_path.status = "Err"
          THEN built' = binary_path /\ UNCHANGED builder
          ELSE /\ builder' = [FirecrackerExecutorBuilder_new EXCEPT
                                 !.chroot = Some("/srv"),
                                 !.exec_binary = binary_path.value]
               /\ UNCHANGED built
    /\ UNCHANGED <<dirs, env>>
    /\ UNCHANGED lvars

\* src/lib.rs 53-63
WorkingDirs == {<<"/tmp/fc">>}
Locations == {<<"/opt/fc", "firecracker-v1">>, <<"/usr/bin", "firecracker">>, <<"/opt/bin">>}
FirecrackerOptions ==
    [kind : {"FirecrackerOptions"},
     command : {None} \cup {Some(p) : p \in Locations},
     working_dir : {None} \cup {Some(d) : d \in WorkingDirs},
     create_working_dir : BOOLEAN]

\* Option::unwrap_or_default of a path: the empty path.
unwrap_or_default(o) == IF is_some(o) THEN unwrap(o) ELSE <<>>

\* src/lib.rs 164-180
Firecracker_new ==
    \E options \in FirecrackerOptions :
        /\ op = "none"
        /\ op' = "Firecracker::new"
        /\ builder' = options
        /\ LET binary_path == IF is_some(options.command)
                                THEN BuildOk(unwrap(options.command))
                                ELSE Firecracker_determine_binary_location
               working_dir == unwrap_or_default(options.working_dir)
           IN IF binary_path.status = "Err"
              THEN built' = binary_path /\ UNCHANGED dirs
              ELSE IF options.create_working_dir /\ working_dir # <<>>
              THEN \E made \in create_dir_all(working_dir) :
                      IF made
                      THEN /\ dirs' = dirs \cup {working_dir}
                           /\ built' = BuildOk([binary_path |-> unwrap(binary_path.value),
                                                working_dir |-> working_dir])
                      ELSE /\ built' = BuildErr("WorkingDirCreation", "")
                           /\ UNCHANGED dirs
              ELSE /\ built' = BuildOk([binary_path |-> unwrap(binary_path.value),
                                        working_dir |-> working_dir])
                   /\ UNCHANGED dirs
        /\ UNCHANGED env
        /\ UNCHANGED lvars

\* std::env::set_var / remove_var, called before the search.
set_var ==
    /\ op = "none"
    /\ \E p \in Locations : env' = [env EXCEPT !.FIRECRACKER_LOCATION = Some(p)]
    /\ UNCHANGED <<op, builder, built, dirs>>
    /\ UNCHANGED lvars

remove_var ==
    /\ op = "none"
    /\ is_some(env.FIRECRACKER_LOCATION)
    /\ env' = [env EXCEPT !.FIRECRACKER_LOCATION = None]
    /\ UNCHANGED <<op, builder, built, dirs>>
    /\ UNCHANGED lvars

\* The places a binary may lie at: in two directories of PATH, in the current
\* directory, and where the override points.
BinaryPaths == {<<"/usr/bin", "firecracker">>, <<"/opt/bin", "firecracker">>,
                <<"firecracker">>, <<"/opt/fc", "firecracker-v1">>}

PathValues == UNION {[1..n -> PathTokens] : n \in 0..MaxPathTokens}

\* Any environment and any filesystem: each place holds a file, a directory
\* or nothing.
LocateInit ==
    /\ executor = Executor_new
    /\ \E fs \in SUBSET BinaryPaths, ds \in SUBSET BinaryPaths :
          /\ fs \cap ds = {}
          /\ files = [p \in fs |-> Binary] @@ HostFiles
          /\ dirs = ds \cup {<<"/opt/bin">>}
    /\ procs = <<>>
    /\ op = "none"
    /\ pc = "idle"
    /\ arg = NoConfig
    /\ config = NoConfig
    /\ idx = 0
    /\ retries = 0
    /\ child = 0
    /\ result = NoResult
    /\ effects = <<>>
    /\ nOps = 0
    /\ builder = NoBuilder
    /\ built = NoBuilt
    /\ env \in [FIRECRACKER_LOCATION : {None} \cup {Some(p) : p \in Locations},
                PATH : {None} \cup {Some(v) : v \in PathValues}]
    /\ flight = NoFlight
    /\ raised = NoRaised

LocateNext ==
    \/ set_var
    \/ remove_var
    \/ FirecrackerExecutorBuilder_determine_binary_location
    \/ auto
    \/ Firecracker_new
    \/ try_build_FirecrackerExecutorBuilder

LocateSpec == LocateInit /\ [][LocateNext]_vars

\* The directories of PATH, in PATH order.
PathDirs == IF is_none(env.PATH) THEN <<>> ELSE split_paths(unwrap(env.PATH))

\* The positions in PATH of the directories that hold a file named firecracker.
PathHits == {i \in 1..Len(PathDirs) : is_file(join(PathDirs[i], "firecracker"))}

OverrideHits ==
    /\ env.FIRECRACKER_LOCATION # None
    /\ is_file(env.FIRECRACKER_LOCATION[1])

C29_ExplicitBinaryChecked ==
    (op = "Firecracker::new" /\ builder.command # None) =>
        LET path == builder.command[1]
        IN IF path \in DOMAIN files
           THEN builder.create_working_dir
                \/ (built.status = "Ok" /\ built.value[1].binary_path = path)
           ELSE built.status = "Err" /\ built.error = "BinaryNotFound"


\* The drive given twice: two entries of one drive_id.
SameIdTwice(c) ==
    /\ Len(c.storage) = 2
    /\ c.storage[1].drive_id = c.storage[2].drive_id

\* C22: two drives of the same drive_id are accepted everywhere: with_drive
\* keeps both entries, create stages both (the second copy overwrites the
\* first and fails only when its own source is missing), configure_drives
\* sends one request per entry to the same drive resource, and a create that
\* returns an error does so because a filesystem, process or request outcome
\* failed, never because of the duplicate.
C22_DuplicateDrivesAccepted ==
    /\ \A d \in DrivePool :
          with_drive(with_drive(arg, d), d).storage = arg.storage \o <<d, d>>
    /\ (op = "create" /\ is_some(arg.executor) /\ SameIdTwice(arg)) =>
          LET id == arg.storage[1].drive_id
              staged == join(chroot(executor), id)
              n == Len(effects)
              r == DriveReqs
          IN /\ Len(config.storage) = 2
             /\ \A i \in 1..2 : config.storage[i].drive_id = id
             /\ n >= 3 =>
                   /\ \A i \in 2..3 : effects[i].kind = "copy" /\ effects[i].dst = staged
                   /\ effects[3].ok = "ok" <=>
                         arg.storage[2].path_on_host \in DOMAIN files
             /\ Len(r) <= 2
             /\ \A i \in 1..Len(r) : r[i].src = <<"drives", id>>
             /\ (CreateReturned /\ result = Ok) =>
                   Len(r) = 2 /\ r[1].ok = "ok" /\ r[2].ok = "ok"
             /\ (CreateReturned /\ result.status = "Err") =>
                   \/ \E i \in 1..n : effects[i].ok # "ok"
                   \/ result.step = "wait_healthy"

C22_Witness ==
    /\ CreateReturned
    /\ result = Ok
    /\ SameIdTwice(arg)
    /\ Len(DriveReqs) = 2
    /\ DriveReqs[1].src = DriveReqs[2].src
    /\ effects[2].dst = effects[3].dst


\* The supervisor processes spawned through the Machine that are alive.
Alive == {p \in 1..Len(procs) : procs[p].state = "running"}

\* C23: between calls, at most one supervisor process spawned through the
\* Machine is alive, and a live one is the process recorded in the executor's
\* handle.
C23_OneChildOwned ==
    pc = "idle" =>
        /\ Cardinality(Alive) <= 1
        /\ \A p \in Alive : executor.socket_process = Some(p)

\* The process the create that has just returned spawned, when it is alive.
SpawnedAlive ==
    {effects[i].pid : i \in {j \in 1..Len(effects) :
                               /\ effects[j].kind = "spawn"
                               /\ effects[j].ok = "ok"
                               /\ procs[effects[j].pid].state = "running"}}

\* C30: when create has returned an error and the supervisor process it
\* spawned is still running (the health wait was exhausted, or a configuration
\* request failed), a kill called next terminates that process and removes its
\* socket file.
C30_Step ==
    (/\ op = "create" /\ pc = "idle" /\ result.status = "Err"
     /\ SpawnedAlive # {}
     /\ op' = "kill")
    => /\ \A p \in SpawnedAlive : procs'[p].state = "killed"
       /\ socket_path(executor) \notin DOMAIN files'

C30_KillAfterFailedCreate == [][C30_Step]_vars


\* ------------------------------------- destroy_socket against a request
\* destroy_socket takes the Executor exclusively, so a request can only be in
\* flight against the same socket when a second task sends it through an
\* Executor of its own with the same chroot and id. Both are followed step by
\* step: a step ends where the code awaits or calls the system.
RaceResources == {<<"drives", "rootfs">>, <<"boot-source">>,
                  <<"network-interfaces", "eth0">>, <<"actions">>}

RaceExecutor == with_id(new_with_firecracker(FirecrackerExecutor), "vm1")

\* What the steps of the second task leave alone.
fvars == <<executor, dirs, files, procs, op, pc, arg, config, idx, retries,
           child, result, nOps, builder, built, env, raised>>

\* What the steps of destroy_socket leave alone.
dvars == <<dirs, op, arg, config, idx, retries, child, nOps, builder, built,
           env, flight, raised>>

Landed(r) == flight' = [flight EXCEPT !.pc = "done", !.result = r]

\* A variant of answers: a supervisor answers whether it was killed or not.
answers_after_kill(p) == {"ok", "status"}

\* What comes back on a connection to process p: an answer of the supervisor
\* while it runs, the end of the connection once it was killed.
answers(p) == IF procs[p].state = "running" THEN {"ok", "status"} ELSE {"undelivered"}

\* executor.rs 172-176: client.request connects to the socket and sends.
send_request_connect ==
    /\ flight.pc = "request"
    /\ LET sock == socket_path(executor)
       IN IF listening(sock)
          THEN /\ flight' = [flight EXCEPT !.pc = "response", !.pid = files[sock].pid]
               /\ UNCHANGED effects
          ELSE /\ Landed(Err(send_request_error("undelivered"), "send_request"))
               /\ effects' = Append(effects, Req(flight.resource, sock, <<>>,
                                                 FALSE, "undelivered"))
    /\ UNCHANGED fvars

\* executor.rs 172-179: the response, or the error of the broken connection.
send_request_response ==
    /\ flight.pc = "response"
    /\ \E out \in answers(flight.pid) :
          /\ effects' = Append(effects, Req(flight.resource, socket_path(executor),
                                            <<>>, FALSE, out))
          /\ CASE out = "ok"     -> Landed(Ok)
               [] out = "status" -> flight' = [flight EXCEPT !.pc = "body"]
               [] OTHER          -> Landed(Err(send_request_error(out), "send_request"))
    /\ UNCHANGED fvars

\* executor.rs 180-195: the body of a non-success response is read, then the
\* status is returned as CommandExecution; the read fails when the connection
\* ended before the body was through.
send_request_body ==
    /\ flight.pc = "body"
    /\ \E read \in (IF procs[flight.pid].state = "running" THEN {TRUE} ELSE BOOLEAN) :
          Landed(Err(send_request_error(IF read THEN "status" ELSE "undelivered"),
                     "send_request"))
    /\ UNCHANGED effects
    /\ UNCHANGED fvars

\* executor.rs 238-245: the handle is looked up.
destroy_socket_begin ==
    /\ pc = "destroy_socket"
    /\ IF is_running(executor)
       THEN pc' = "kill" /\ UNCHANGED result
       ELSE Finish(Err("Socket", "socket_process"))
    /\ UNCHANGED <<executor, files, procs, effects>>
    /\ UNCHANGED dvars

\* executor.rs 246-249: the child is killed and awaited.
destroy_socket_kill ==
    /\ pc = "kill"
    /\ LET pid == unwrap(executor.socket_process)
       IN /\ procs' = [procs EXCEPT ![pid].state = "killed"]
          /\ effects' = Append(effects, Kill(pid, "ok"))
    /\ pc' = "remove_file"
    /\ UNCHANGED <<executor, files, result>>
    /\ UNCHANGED dvars

\* A variant of destroy_socket_remove_file: the handle stays after the file
\* is removed.
destroy_socket_remove_file_keeps_handle ==
    /\ pc = "remove_file"
    /\ LET sock_path == socket_path(executor)
       IN IF sock_path \in DOMAIN files
          THEN /\ files' = remove_file(sock_path)
               /\ UNCHANGED executor
               /\ effects' = Append(effects, Remove(sock_path, "ok"))
               /\ Finish(Ok)
          ELSE /\ effects' = Append(effects, Remove(sock_path, "failed"))
               /\ Finish(Err("Socket", "remove_file"))
               /\ UNCHANGED <<executor, files>>
    /\ UNCHANGED procs
    /\ UNCHANGED dvars

\* executor.rs 250-252: the socket file is removed and the handle cleared.
destroy_socket_remove_file ==
    /\ pc = "remove_file"
    /\ LET sock_path == socket_path(executor)
       IN IF sock_path \in DOMAIN files
          THEN /\ files' = remove_file(sock_path)
               /\ executor' = [executor EXCEPT !.socket_process = None]
               /\ effects' = Append(effects, Remove(sock_path, "ok"))
               /\ Finish(Ok)
          ELSE /\ effects' = Append(effects, Remove(sock_path, "failed"))
               /\ Finish(Err("Socket", "remove_file"))
               /\ UNCHANGED <<executor, files>>
    /\ UNCHANGED procs
    /\ UNCHANGED dvars

\* Both have been called and neither has taken a step. The supervisor was
\* spawned by run_socket: it is bound to its socket and recorded; or run_socket
\* took the file of a crashed instance for its socket; or the health wait ran
\* out, no handle was recorded, and the supervisor may bind yet.
RaceInit ==
    /\ \E state \in {"bound", "stale", "unhealthy"} :
          /\ executor = [RaceExecutor EXCEPT !.socket_process =
                            IF state = "unhealthy" THEN None ELSE Some(1)]
          /\ procs = <<[state |-> "running", sock |-> socket_path(RaceExecutor),
                        bound |-> (state = "bound")]>>
          /\ files = CASE state = "bound" -> (socket_path(RaceExecutor) :> Socket(1)) @@ HostFiles
                       [] state = "stale" -> (socket_path(RaceExecutor) :> Socket(0)) @@ HostFiles
                       [] OTHER           -> HostFiles
    /\ dirs = {chroot(RaceExecutor)}
    /\ op = "destroy_socket"
    /\ pc = "destroy_socket"
    /\ arg = NoConfig
    /\ config = NoConfig
    /\ idx = 0
    /\ retries = 0
    /\ child = 0
    /\ result = NoResult
    /\ effects = <<>>
    /\ nOps = 1
    /\ builder = NoBuilder
    /\ built = NoBuilt
    /\ env = NoEnv
    /\ \E r \in RaceResources :
          flight = [pc |-> "request", resource |-> r, pid |-> 0, result |-> NoResult]
    /\ raised = NoRaised

RaceNext ==
    \/ send_request_connect
    \/ send_request_response
    \/ send_request_body
    \/ destroy_socket_begin
    \/ destroy_socket_kill
    \/ destroy_socket_remove_file
    \/ SocketBind

RaceSpec == RaceInit /\ [][RaceNext]_vars

\* Both tasks are run to their end by the runtime, and a connection yields an
\* answer or its end.
FairRaceSpec ==
    /\ RaceSpec
    /\ WF_vars(send_request_connect)
    /\ WF_vars(send_request_response)
    /\ WF_vars(send_request_body)
    /\ WF_vars(destroy_socket_begin)
    /\ WF_vars(destroy_socket_kill)
    /\ WF_vars(destroy_socket_remove_file)

\* The effects logged before the first kill.
BeforeKill ==
    LET ks == {i \in 1..Len(effects) : effects[i].kind = "kill"}
    IN IF ks = {} THEN effects
       ELSE SubSeq(effects, 1, (CHOOSE i \in ks : \A j \in ks : i <= j) - 1)

AnsweredBeforeKill(out) ==
    \E i \in 1..Len(BeforeKill) :
        BeforeKill[i].kind = "req" /\ BeforeKill[i].ok = out

RaceEnded == flight.pc = "done" /\ pc = "idle"

\* What holds in every state of the race: the request ends in Ok only when the
\* supervisor answered before it was killed, and otherwise in a returned error,
\* the Request error unless a non-success status came before the kill;
\* destroy_socket ends in Ok with the child killed, the socket file removed and
\* the handle absent, or in the Socket error with the handle as it was.
C24_Consistent ==
    /\ flight.pc = "done" =>
          /\ flight.result.status \in {"Ok", "Err"}
          /\ flight.result = Ok => AnsweredBeforeKill("ok")
          /\ flight.result.status = "Err" =>
                /\ flight.result.error \in {"Request", "CommandExecution"}
                /\ flight.result.error = "CommandExecution" =>
                      AnsweredBeforeKill("status")
    /\ pc = "idle" =>
          /\ result.status \in {"Ok", "Err"}
          /\ result = Ok =>
                /\ is_none(executor.socket_process)
                /\ socket_path(executor) \notin DOMAIN files
                /\ Alive = {}
          /\ result.status = "Err" =>
                /\ result.error = "Socket"
                /\ result.step = "socket_process" => is_none(executor.socket_process)
                /\ result.step = "remove_file" =>
                      is_some(executor.socket_process) /\ Alive = {}

C26_RequestFailureIsConfigure ==
    (CreateReturned /\ result.status = "Err" /\ effects # <<>>) =>
        LET last == effects[Len(effects)]
        IN /\ (last.kind = "req" /\ last.ok # "ok") => result.error = "Configure"
           /\ result.error = "Setup" => last.kind # "req"


\* ------------------------------------------------- errors and their text
\* A text is the sequence of its pieces.
IoErrors == {"No such file or directory (os error 2)",
             "Permission denied (os error 13)",
             "No space left on device (os error 28)"}
HyperErrors == {"error trying to connect: Connection refused (os error 111)",
                "connection closed before message completed"}
SerdeErrors == {"key must be a string"}
Statuses == {"400 Bad Request", "404 Not Found", "500 Internal Server Error"}
Urls == {"/drives/rootfs", "/drives/data", "/drives/scratch", "/boot-source",
         "/network-interfaces/eth0", "/network-interfaces/eth1", "/actions"}

ExecuteError(kind, url, msg) == [kind |-> kind, url |-> url, msg |-> msg]

\* The errors the Executor returns, each with the texts it is built with.
ExecuteErrors ==
    {ExecuteError("WorkspaceCreation", None, <<e>>) : e \in IoErrors}
    \cup {ExecuteError("WorkspaceDeletion", None, <<e>>) : e \in IoErrors}
    \cup {ExecuteError("CommandExecution", None, <<e>>) : e \in IoErrors}
    \cup {ExecuteError("CommandExecution", None,
                       <<"Failed to send request to ", u, ", status: ", st>>) :
            u \in Urls, st \in Statuses}
    \cup {ExecuteError("Socket", None, <<e>>) :
            e \in IoErrors \cup {"Socket hasn't been spawned, you must spawn it before destroying it"}}
    \cup {ExecuteError("Request", Some(u), <<e>>) : u \in Urls, e \in HyperErrors}
    \cup {ExecuteError("Serialize", None, <<e>>) : e \in SerdeErrors}
    \cup {ExecuteError("Unhealthy", None, <<>>)}

\* executor.rs 40-56: Display of ExecuteError, from its #[error] attributes.
to_string_ExecuteError(e) ==
    CASE e.kind = "WorkspaceCreation" ->
            <<"Could not initate worksapce for machine, reason: ">> \o e.msg
      [] e.kind = "WorkspaceDeletion" ->
            <<"Could not delete worksapce for machine, reason: ">> \o e.msg
      [] e.kind = "CommandExecution" ->
            <<"Could not execute command, reason: ">> \o e.msg
      [] e.kind = "Socket" -> <<"Failed to manage socket, reason: ">> \o e.msg
      [] e.kind = "Request" ->
            <<"Could not send request on uri ", unwrap(e.url), ", reason: ">> \o e.msg
      [] e.kind = "Serialize" -> <<"Could not serialize request, reason: ">> \o e.msg
      [] e.kind = "Unhealthy" -> <<"Socket didn't start on time">>

FirepilotError(kind, msg) == [kind |-> kind, msg |-> msg]

\* executor.rs 59-73: the kind by From, the text as each arm builds it.
FirepilotError_from(e) ==
    FirepilotError(From(e.kind),
        CASE e.kind = "Request"   -> <<unwrap(e.url), ": ">> \o e.msg
          [] e.kind = "Unhealthy" -> <<"Socket didn't start on time">>
          [] OTHER                -> e.msg)

\* What the steps of an error leave alone.
rvars == <<executor, dirs, files, procs, op, pc, arg, config, idx, retries,
           child, result, effects, nOps, builder, built, env, flight>>

\* An operation of the Executor called by the Machine returns Err(e).
Executor_returns_error ==
    /\ raised = NoRaised
    /\ \E e \in ExecuteErrors : raised' = [from |-> Some(e), to |-> None]
    /\ UNCHANGED rvars

\* machine.rs 99-153: `?` on that result converts the error and returns it.
question_mark ==
    /\ raised.from # None
    /\ raised.to = None
    /\ raised' = [raised EXCEPT !.to = Some(FirepilotError_from(raised.from[1]))]
    /\ UNCHANGED rvars

\* machine.rs 62-77: Machine::copy builds its error itself.
Machine_copy_error ==
    /\ raised = NoRaised
    /\ \E src \in {HostPath("missing.img"), HostPath("missing.bin")},
          dst \in {join(StaleDir, "vmlinux"), join(StaleDir, "rootfs")},
          e \in IoErrors :
          raised' = [from |-> None,
                     to |-> Some(FirepilotError("Setup",
                               <<"Failed to copy ", src, " to ", dst, ": ", e>>))]
    /\ UNCHANGED rvars

\* machine.rs 90-95: create without executor builds its error itself.
Machine_create_no_executor ==
    /\ raised = NoRaised
    /\ raised' = [from |-> None,
                  to |-> Some(FirepilotError("Setup",
                            <<"No executor was provided in the configuration">>))]
    /\ UNCHANGED rvars

ErrorInit ==
    /\ executor = Executor_new
    /\ dirs = {}
    /\ files = HostFiles
    /\ procs = <<>>
    /\ op = "none"
    /\ pc = "idle"
    /\ arg = NoConfig
    /\ config = NoConfig
    /\ idx = 0
    /\ retries = 0
    /\ child = 0
    /\ result = NoResult
    /\ effects = <<>>
    /\ nOps = 0
    /\ builder = NoBuilder
    /\ built = NoBuilt
    /\ env = NoEnv
    /\ flight = NoFlight
    /\ raised = NoRaised

ErrorNext ==
    \/ Executor_returns_error
    \/ question_mark
    \/ Machine_copy_error
    \/ Machine_create_no_executor

ErrorSpec == ErrorInit /\ [][ErrorNext]_vars

\* Text t ends with text m.
EndsWith(t, m) ==
    /\ Len(m) <= Len(t)
    /\ SubSeq(t, Len(t) - Len(m) + 1, Len(t)) = m

EntriesGiven ==
    CASE op = "configure_drives"  -> Len(config.storage)
      [] op = "configure_network" -> Len(config.interfaces)
      [] OTHER                    -> 1

\* The resource the i-th request of the call is due at.
ResourceOf(i) ==
    CASE op = "configure_drives"      -> <<"drives", config.storage[i].drive_id>>
      [] op = "configure_network"     ->
            <<"network-interfaces", config.interfaces[i].iface_id>>
      [] op = "configure_boot_source" -> <<"boot-source">>
      [] op = "send_action"           -> <<"actions">>

\* C27: every request of a configuration or action call is a PUT on the
\* executor's socket, addressed by the identifier of its object:
\* /drives/<drive_id> for the i-th drive, /network-interfaces/<iface_id> for
\* the i-th interface, /boot-source for the boot source, /actions for an
\* action; a call never sends more requests than it was given entries, and a
\* call that returned Ok has sent as many.
C27_RequestsAddressedById ==
    (op \in RequestCalls /\ result.status # "Panic") =>
        /\ Len(effects) <= EntriesGiven
        /\ \A i \in 1..Len(effects) :
              /\ effects[i].kind = "req"
              /\ effects[i].method = "PUT"
              /\ effects[i].dst = join(chroot(executor), "firecracker.socket")
              /\ effects[i].src = ResourceOf(i)
        /\ (pc = "idle" /\ result = Ok) => Len(effects) = EntriesGiven
        /\ (pc = "idle" /\ op \in {"configure_boot_source", "send_action"}) =>
              Len(effects) = 1

C27_Witness ==
    /\ op = "configure_network"
    /\ pc = "idle"
    /\ result = Ok
    /\ Len(effects) = 2
    /\ effects[1].src = <<"network-interfaces", "eth0">>
    /\ effects[2].src = <<"network-interfaces", "eth1">>
    /\ effects[2].method = "PUT"


\* ------------------------------------------- a Configuration being built
\* A caller makes a Configuration and an Executor and chains with_* calls;
\* `arg` is the Configuration, `executor` the Executor in the caller's hand,
\* `effects` the calls made, in order. Ids are single path components.
VmIds == {"vm1", "vm2"}

\* What a with_* call of the Configuration leaves alone.
cvars == <<dirs, files, procs, op, pc, config, idx, retries, child, result,
           nOps, builder, built, env, flight, raised>>

\* builder/mod.rs 120-123
Configuration_with_kernel ==
    /\ Len(effects) < MaxCalls
    /\ \E k \in {b \in KernelPool : is_none(b.initrd_path)} :
          /\ arg' = with_kernel(arg, k)
          /\ effects' = Append(effects, Called("with_kernel", k))
    /\ UNCHANGED executor
    /\ UNCHANGED cvars

\* builder/mod.rs 125-129: the Executor is moved into the Configuration; the
\* caller may make another.
Configuration_with_executor ==
    /\ Len(effects) < MaxCalls
    /\ arg' = with_executor(arg, executor)
    /\ effects' = Append(effects, Called("with_executor", executor))
    /\ executor' \in {Executor_new, new_with_firecracker(FirecrackerExecutor)}
    /\ UNCHANGED cvars

\* builder/mod.rs 131-134
Configuration_with_drive ==
    /\ Len(effects) < MaxCalls
    /\ \E d \in DrivePool :
          /\ arg' = with_drive(arg, d)
          /\ effects' = Append(effects, Called("with_drive", d))
    /\ UNCHANGED executor
    /\ UNCHANGED cvars

\* builder/mod.rs 136-139
Configuration_with_interface ==
    /\ Len(effects) < MaxCalls
    /\ \E i \in IfacePool :
          /\ arg' = with_interface(arg, i)
          /\ effects' = Append(effects, Called("with_interface", i))
    /\ UNCHANGED executor
    /\ UNCHANGED cvars

\* executor.rs 125-127: the caller gives the Executor in hand an id.
Executor_with_id ==
    /\ Len(effects) < MaxCalls
    /\ \E id \in VmIds :
          /\ executor' = with_id(executor, id)
          /\ effects' = Append(effects, Called("with_id", id))
    /\ UNCHANGED arg
    /\ UNCHANGED cvars

\* Configuration::new(vm_id), and Executor::new() or new_with_firecracker(..).
ConfigInit ==
    /\ executor \in {Executor_new, new_with_firecracker(FirecrackerExecutor)}
    /\ dirs = {}
    /\ files = HostFiles
    /\ procs = <<>>
    /\ op = "none"
    /\ pc = "idle"
    /\ arg \in {Configuration_new(v) : v \in VmIds}
    /\ config = NoConfig
    /\ idx = 0
    /\ retries = 0
    /\ child = 0
    /\ result = NoResult
    /\ effects = <<>>
    /\ nOps = 0
    /\ builder = NoBuilder
    /\ built = NoBuilt
    /\ env = NoEnv
    /\ flight = NoFlight
    /\ raised = NoRaised

ConfigNext ==
    \/ Configuration_with_kernel
    \/ Configuration_with_executor
    \/ Configuration_with_drive
    \/ Configuration_with_interface
    \/ Executor_with_id

ConfigSpec == ConfigInit /\ [][ConfigNext]_vars

\* The values given to the calls of kind k, in call order.
Given(k) ==
    LET cs == SelectSeq(effects, LAMBDA e : e.kind = k)
    IN [i \in 1..Len(cs) |-> cs[i].value]

Last(q) == q[Len(q)]

\* The with_id calls made on the Executor in hand since it was made.
IdsInHand ==
    LET moved == {i \in 1..Len(effects) : effects[i].kind = "with_executor"}
        since == IF moved = {} THEN 0 ELSE CHOOSE i \in moved : \A j \in moved : j <= i
    IN SelectSeq(SubSeq(effects, since + 1, Len(effects)),
                 LAMBDA e : e.kind = "with_id")

\* What C28 says of the Configuration: drives and interfaces in call order,
\* the last kernel and the last executor given, the executor stamped with
\* vm_id and its workspace and socket under <chroot root>/<vm_id>.
ChainKept ==
    /\ arg.storage = Given("with_drive")
    /\ arg.interfaces = Given("with_interface")
    /\ arg.kernel = IF Given("with_kernel") = <<>> THEN None
                    ELSE Some(Last(Given("with_kernel")))
    /\ IF Given("with_executor") = <<>> THEN arg.executor = None
       ELSE LET given == Last(Given("with_executor"))
                e == arg.executor[1]
            IN /\ arg.executor # None
               /\ e.id = arg.vm_id
               /\ e.firecracker = given.firecracker
               /\ e.socket_process = given.socket_process
               /\ e.firecracker # None =>
                     /\ chroot(e) = <<e.firecracker[1].chroot, arg.vm_id>>
                     /\ socket_path(e) = <<e.firecracker[1].chroot, arg.vm_id,
                                           "firecracker.socket">>

\* C28 as claimed: besides, the Executor in hand, which never passed through
\* with_executor, has the id 'default'.
C28_ChainAndDefaultId == ChainKept /\ executor.id = "default"

\* C28: a Configuration built by any chain of with_* calls lists its drives
\* and interfaces in call order, keeps the last kernel and the last executor
\* given and stamps the executor with its vm_id, so that workspace and socket
\* lie under <chroot root>/<vm_id>; an Executor that passed through neither
\* with_executor nor with_id has the id 'default', and one given an id by
\* with_id has that id.
C28_ChainAndIdInHand ==
    /\ ChainKept
    /\ executor.id = IF IdsInHand = <<>> THEN "default" ELSE Last(IdsInHand).value

C28_Witness ==
    /\ Len(effects) = 4
    /\ effects[1].kind = "with_id"
    /\ effects[2].kind = "with_executor"
    /\ effects[2].value.id # arg.vm_id
    /\ arg.executor # None
    /\ arg.executor[1].id = arg.vm_id
    /\ Len(arg.storage) = 2
    /\ arg.storage[1] # arg.storage[2]
    /\ executor.id = "default"


\* One step of C31: a destroy_socket that returns an error has done nothing,
\* and a kill goes only to a process that no destroy_socket has killed yet.
C31_Step ==
    /\ (Destroys /\ result'.status = "Err") =>
          /\ procs' = procs
          /\ files' = files
          /\ executor' = executor
          /\ \A i \in 1..Len(effects') : effects'[i].kind # "kill"
    /\ Destroys =>
          \A i \in 1..Len(effects') :
              effects'[i].kind = "kill" => procs[effects'[i].pid].state = "running"

\* C31: destroy_socket is all-or-nothing: when it returns an error the child
\* has not been killed, the socket file and the handle are as they were (so a
\* destroy_socket that fails at removing the socket file has not killed the
\* process), and no process is killed by two destroy_socket calls.
C31_DestroyAllOrNothing == [][C31_Step]_vars


\* The step in which run_socket returns Ok.
RunSocketSucceeds ==
    op = "run_socket" /\ pc = "wait_healthy" /\ pc' = "idle" /\ result' = Ok

\* The step in which destroy_socket returns Ok.
DestroySocketSucceeds ==
    op' = "destroy_socket" /\ nOps' = nOps + 1 /\ result' = Ok

\* One step of C32: the handle changes only where run_socket or destroy_socket
\* returns Ok; the first sets it to the child just spawned, the second clears it.
C32_Step ==
    /\ executor' # executor => (RunSocketSucceeds \/ DestroySocketSucceeds)
    /\ RunSocketSucceeds => executor' = [executor EXCEPT !.socket_process = Some(child)]
    /\ DestroySocketSucceeds => executor' = [executor EXCEPT !.socket_process = None]

StageIds == {"rootfs", "vmlinux", "initrd", "firecracker.socket"}

StageDrives ==
    { [drive_id |-> id, path_on_host |-> HostPath(n)] :
        id \in StageIds, n \in {"rootfs.ext4", "data.img"} }

\* Configurations with executor and boot source, the images all present.
StageConfigurations ==
    { with_interfaces(with_drives(ck, ds), is) :
        ck \in { with_kernel(with_executor(Configuration_new("vm1"),
                                           new_with_firecracker(FirecrackerExecutor)),
                             [kernel_image_path |-> HostPath("kernel.bin"),
                              initrd_path |-> i]) :
                   i \in {None, Some(HostPath("initrd.img"))} },
        ds \in SeqsUpTo(StageDrives, MaxDrives),
        is \in SeqsUpTo({i \in IfacePool : i.iface_id = "eth0"}, 1) }

\* Machine::new in an empty workspace root.
StageInit ==
    /\ executor = Executor_new
    /\ dirs = {}
    /\ files = HostFiles
    /\ procs = <<>>
    /\ op = "none"
    /\ pc = "idle"
    /\ arg \in StageConfigurations
    /\ config = NoConfig
    /\ idx = 0
    /\ retries = 0
    /\ child = 0
    /\ result = NoResult
    /\ effects = <<>>
    /\ nOps = 0
    /\ builder = NoBuilder
    /\ built = NoBuilt
    /\ env = NoEnv
    /\ flight = NoFlight
    /\ raised = NoRaised

\* The first create of the new Machine.
first_create == nOps = 0 /\ create

StageNext ==
    \/ first_create
    \/ create_copy_drive
    \/ create_copy_kernel
    \/ create_copy_initrd
    \/ run_socket
    \/ wait_healthy
    \/ wait_healthy_unhealthy
    \/ configure_drives
    \/ configure_boot_source
    \/ configure_network
    \/ SocketBind

StageSpec == StageInit /\ [][StageNext]_vars

\* The copies the running create has made, in order.
Copies == SelectSeq(effects, LAMBDA e : e.kind = "copy")

\* The staging steps of the running create have all succeeded.
StagingDone ==
    /\ op = "create"
    /\ is_some(arg.executor)
    /\ is_some(arg.kernel)
    /\ Len(Copies) = Len(arg.storage) + 1
                       + (IF is_some(unwrap(arg.kernel).initrd_path) THEN 1 ELSE 0)
    /\ \A i \in 1..Len(Copies) : Copies[i].ok = "ok"

\* C33: once the staging steps of a create have all succeeded, each staged
\* file holds what it was staged from: <workspace>/<drive_id> the image of
\* each drive, <workspace>/vmlinux the kernel, <workspace>/initrd the initrd;
\* no two copies of the create go to the same file, whatever the drive ids.
C33_StagedFilesKeepContent ==
    StagingDone =>
        LET ws == chroot(executor)
            k == unwrap(arg.kernel)
        IN /\ \A i \in 1..Len(arg.storage) :
                 LET staged == join(ws, arg.storage[i].drive_id)
                 IN /\ staged \in DOMAIN files
                    /\ files[staged] = Image(arg.storage[i].path_on_host[2])
           /\ files[join(ws, "vmlinux")] = Image(k.kernel_image_path[2])
           /\ is_some(k.initrd_path) =>
                 files[join(ws, "initrd")] = Image(unwrap(k.initrd_path)[2])
           /\ \A i, j \in 1..Len(Copies) : Copies[i].dst = Copies[j].dst => i = j


\* The requests of the last operation that address the boot source.
BootReqs == SelectSeq(effects, LAMBDA e : e.kind = "req" /\ e.src = <<"boot-source">>)

\* C34: staging rewrites the drives and not the boot source: the boot-source
\* request of a create carries kernel_image_path and initrd_path as the
\* Configuration gave them, the host paths and not <workspace>/vmlinux or
\* <workspace>/initrd, while the request of each drive carries the path of the
\* staged file, <workspace>/<drive_id>, and not the drive's host path.
C34_BootSourceKeepsHostPaths ==
    (op = "create" /\ is_some(arg.executor) /\ is_some(arg.kernel)) =>
        LET ws == chroot(executor)
            k == unwrap(arg.kernel)
        IN /\ Len(BootReqs) <= 1
           /\ \A i \in 1..Len(BootReqs) :
                 /\ StagingDone
                 /\ BootReqs[i].body = <<"kernel_image_path", k.kernel_image_path,
                                         "initrd_path", k.initrd_path>>
                 /\ BootReqs[i].body[2] # join(ws, "vmlinux")
                 /\ BootReqs[i].body[4] # Some(join(ws, "initrd"))
           /\ \A i \in 1..Len(DriveReqs) :
                 /\ DriveReqs[i].body[2] = arg.storage[i].drive_id
                 /\ DriveReqs[i].body[4] = join(ws, arg.storage[i].drive_id)
                 /\ DriveReqs[i].body[4] # arg.storage[i].path_on_host
                 /\ DriveReqs[i].body[4] \in DOMAIN files

\* A create with kernel, initrd and two drives has returned Ok: the kernel and
\* the initrd are staged, and the boot-source request names neither staged file.
C34_Witness ==
    /\ CreateReturned
    /\ result = Ok
    /\ Len(DriveReqs) = 2
    /\ Len(BootReqs) = 1
    /\ is_some(unwrap(arg.kernel).initrd_path)
    /\ join(chroot(executor), "vmlinux") \in DOMAIN files
    /\ join(chroot(executor), "initrd") \in DOMAIN files
    /\ BootReqs[1].body[2] = HostPath("kernel.bin")
    /\ BootReqs[1].body[4] = Some(HostPath("initrd.img"))


\* ------------------------------------------------ a spawn that may fail
\* run_socket is reached in two ways: a caller holds a new Machine and calls
\* create, or holds an Executor with an implementation and calls run_socket.
SpawnInit == StageInit \/ (ExecInit /\ ~executor_panics(executor))

\* The caller holds a Machine and a Configuration.
Machine_create == arg # NoConfig /\ first_create

\* The caller holds an Executor.
Executor_run_socket_direct == arg = NoConfig /\ Executor_run_socket

SpawnNext ==
    \/ Machine_create
    \/ Executor_run_socket_direct
    \/ create_copy_drive
    \/ create_copy_kernel
    \/ create_copy_initrd
    \/ run_socket
    \/ wait_healthy
    \/ wait_healthy_unhealthy
    \/ configure_drives
    \/ configure_boot_source
    \/ configure_network
    \/ SocketBind

SpawnSpec == SpawnInit /\ [][SpawnNext]_vars

\* The spawn of the running operation has failed.
SpawnFailed ==
    /\ effects # <<>>
    /\ effects[Len(effects)].kind = "spawn"
    /\ effects[Len(effects)].ok = "failed"

\* One step of C35: the step of run_socket in which the spawn fails returns,
\* and leaves the handle and the processes as they were.
C35_Step ==
    (pc = "run_socket" /\ ~SpawnFailed /\ SpawnFailed') =>
        /\ pc' = "idle"
        /\ executor' = executor
        /\ procs' = procs

PathOperations ==
    {"chroot", "create_workspace", "run_socket", "destroy_socket",
     "configure_boot_source", "configure_drives", "configure_network",
     "send_action"}

\* The operation that has returned was called on an Executor without
\* implementation.
ReturnedWithoutImplementation ==
    /\ executor_panics(executor)
    /\ op \in PathOperations
    /\ pc = "idle"

\* The list the running configure_drives or configure_network call was given
\* is empty.
CalledWithEmptyList ==
    \/ op = "configure_drives" /\ config.storage = <<>>
    \/ op = "configure_network" /\ config.interfaces = <<>>

\* C36 as stated: on an Executor without implementation every operation that
\* needs the workspace path ends in the panic 'No executor found'.
C36_EveryPathOperationPanics ==
    ReturnedWithoutImplementation => result = Panic("executor")

\* C36: on an Executor without implementation every operation that needs the
\* workspace path ends in the panic 'No executor found' and touches nothing,
\* destroy_socket before its handle is looked at; configure_drives and
\* configure_network called with an empty list never ask for the path and
\* return Ok.
C36_PathOperationsPanicUnlessEmptyList ==
    /\ executor_panics(executor) =>
          (effects = <<>> /\ procs = <<>> /\ ~is_running(executor))
    /\ ReturnedWithoutImplementation =>
          result = IF CalledWithEmptyList THEN Ok ELSE Panic("executor")

\* configure_drives or configure_network has returned Ok for an empty list on
\* an Executor without implementation, and destroy_socket, called next, has
\* panicked.
C36_Witness ==
    /\ ReturnedWithoutImplementation
    /\ op = "destroy_socket"
    /\ nOps = 2
    /\ result = Panic("executor")


\* ------------------------------------------------- the lifecycle, repeated
\* The number of rounds of run_socket and destroy_socket one Executor is taken
\* through.
MaxRounds == 2

\* An Executor with an implementation whose workspace was created; the socket
\* file of an earlier instance may lie in it, and a socket file may be removed
\* by something outside the program.
LifeInit ==
    /\ executor = new_with_firecracker(FirecrackerExecutor)
    /\ dirs = {chroot(executor)}
    /\ \E stale \in BOOLEAN :
         files = IF stale THEN (socket_path(executor) :> Socket(0)) @@ HostFiles
                          ELSE HostFiles
    /\ procs = <<>>
    /\ op = "none"
    /\ pc = "idle"
    /\ arg = NoConfig
    /\ config = NoConfig
    /\ idx = 0
    /\ retries = 0
    /\ child = 0
    /\ result = NoResult
    /\ effects = <<>>
    /\ nOps = 0
    /\ builder = NoBuilder
    /\ built = NoBuilt
    /\ env = NoEnv
    /\ flight = NoFlight
    /\ raised = NoRaised

\* One more call on the same Executor; the log of effects runs on over the
\* calls.
Again(o) ==
    /\ nOps < 2 * MaxRounds
    /\ nOps' = nOps + 1
    /\ op' = o
    /\ pc' = o
    /\ result' = NoResult
    /\ idx' = 0 /\ retries' = 0 /\ child' = 0
    /\ UNCHANGED <<executor, dirs, files, procs, arg, config, effects, builder,
                   built, env, flight, raised>>

\* executor.rs 219: run_socket is called, whatever was called before.
run_socket_again == pc = "idle" /\ Again("run_socket")

\* executor.rs 236: destroy_socket is called, whatever was called before.
destroy_socket_again == pc = "idle" /\ Again("destroy_socket")

LifeNext ==
    \/ run_socket_again
    \/ destroy_socket_again
    \/ run_socket
    \/ wait_healthy
    \/ wait_healthy_unhealthy
    \/ destroy_socket_begin
    \/ destroy_socket_kill
    \/ destroy_socket_remove_file
    \/ SocketBind
    \/ SocketUnlink

LifeSpec == LifeInit /\ [][LifeNext]_vars

\* How often process p is killed in a log of effects.
KillsIn(log, p) ==
    Cardinality({i \in 1..Len(log) : log[i].kind = "kill" /\ log[i].pid = p})

\* How often process p was killed.
Kills(p) == KillsIn(effects, p)

\* The processes spawned so far.
Spawned == {effects[i].pid : i \in {j \in 1..Len(effects) :
                effects[j].kind = "spawn" /\ effects[j].ok = "ok"}}

\* Every destroy_socket so far that reached the socket file removed it.
NoFailedRemove ==
    \A i \in 1..Len(effects) :
        ~(effects[i].kind = "remove" /\ effects[i].ok = "failed")

\* One step of C37.
C37_Step ==
    \* run_socket returns Ok: the process it spawned in this call is new, runs
    \* and is the handle.
    /\ (pc = "wait_healthy" /\ pc' = "idle" /\ result'.status = "Ok") =>
          /\ executor'.socket_process = Some(child)
          /\ child = Len(procs)
          /\ procs[child].state = "running"
          /\ Kills(child) = 0
    \* destroy_socket on an Executor that is running goes on to kill the handle
    \* and no other process; the handle was not killed before.
    /\ (pc = "destroy_socket" /\ is_running(executor)) =>
          pc' \in {"destroy_socket", "kill"}
    /\ (pc = "kill" /\ pc' # "kill") =>
          LET pid == unwrap(executor.socket_process)
          IN /\ NoFailedRemove => Kills(pid) = 0
             /\ \A p \in 1..Len(procs) :
                   KillsIn(effects', p) = Kills(p) + (IF p = pid THEN 1 ELSE 0)
    \* With the socket file in its place it returns Ok, and the handle is gone.
    /\ (pc = "remove_file" /\ pc' # "remove_file"
          /\ socket_path(executor) \in DOMAIN files) =>
          /\ result' = Ok
          /\ ~is_running(executor')
          /\ NoFailedRemove =>
                KillsIn(effects', unwrap(executor.socket_process)) = 1
    \* No other step kills.
    /\ pc # "kill" => \A p \in 1..Len(procs) : KillsIn(effects', p) = Kills(p)
    \* While the Executor is running its socket file stays in its place until
    \* destroy_socket removes it, unless something outside the program does.
    /\ (/\ is_running(executor)
        /\ socket_path(executor) \in DOMAIN files
        /\ socket_path(executor) \notin DOMAIN files') =>
          (pc = "remove_file" \/ SocketUnlink)

\* C37: run_socket and destroy_socket can be repeated on one Executor. A
\* run_socket that returns Ok has spawned a new process, which is the handle
\* and makes is_running true; a destroy_socket called then kills that process
\* and, finding the socket file, returns Ok with the handle gone. Over rounds
\* in which every destroy_socket removed the file no process is killed twice,
\* and the process of each destroyed socket was killed exactly once.
C37_LifecycleRepeats ==
    /\ [][C37_Step]_vars
    /\ [](\A p \in 1..Len(procs) :
            /\ p \in Spawned
            /\ Kills(p) >= 1 <=> procs[p].state = "killed"
            /\ NoFailedRemove => Kills(p) <= 1)
    /\ []((pc = "idle" /\ is_running(executor) /\ NoFailedRemove) =>
            procs[unwrap(executor.socket_process)].state = "running")

\* Two rounds are over: both processes were the handle, both were killed once,
\* and the second destroy_socket returned Ok.
C37_Witness ==
    /\ pc = "idle"
    /\ op = "destroy_socket"
    /\ result = Ok
    /\ nOps = 4
    /\ Len(procs) = 2
    /\ Kills(1) = 1 /\ Kills(2) = 1
    /\ ~is_running(executor)


\* ------------------------------------------------- the last value given
\* The flags of the DriveBuilder.
Flags == {"is_root_device", "is_read_only"}

\* The calls in the chain that gave a value for field f.
GivenAt(f) == {i \in 1..Len(effects) : effects[i].kind = f}

\* What the chain of calls leaves in field f: the value of the last call for
\* f; without one, a flag is false and any other field is None.
LastGiven(f) ==
    IF GivenAt(f) = {} THEN (IF f \in Flags THEN FALSE ELSE None)
    ELSE LET last == CHOOSE i \in GivenAt(f) : \A j \in GivenAt(f) : j <= i
         IN IF f \in Flags THEN TRUE ELSE Some(effects[last].value)

\* The fields of the built objects that no builder call sets.
Unsettable(k) ==
    CASE k = "DriveBuilder" -> {"cache_type", "partuuid", "rate_limiter", "io_engine"}
      [] k = "VsockBuilder" -> {"vsock_id"}
      [] OTHER              -> {}

\* C38: a builder holds in each field the last value given for it, None or
\* false when none was given, whatever the order and number of the calls; the
\* object try_build returns holds those values, an optional field never set is
\* None in it, and so are the fields of the object no builder call sets.
C38_LastValuePerField ==
    builder.kind # "none" =>
        /\ \A f \in DOMAIN builder \ {"kind"} : builder[f] = LastGiven(f)
        /\ built.status = "Ok" =>
              LET o == Fields(unwrap(built.value))
                  req == {RequiredFields(builder.kind)[i] :
                            i \in 1..Len(RequiredFields(builder.kind))}
              IN /\ \A f \in DOMAIN builder \ {"kind"} :
                       o[f] = IF f \in req THEN unwrap(LastGiven(f)) ELSE LastGiven(f)
                 /\ \A f \in Unsettable(builder.kind) : o[f] = None
                 /\ DOMAIN o = (DOMAIN builder \ {"kind"}) \cup Unsettable(builder.kind)

\* A drive was built after with_drive_id was called twice with different ids,
\* the path given between the two and as_read_only called last: it holds
\* the second id, is read-only, is no root device and has no cache mode.
C38_Witness ==
    /\ builder.kind = "DriveBuilder"
    /\ built.status = "Ok"
    /\ Len(effects) = 4
    /\ effects[1].kind = "drive_id"
    /\ effects[2].kind = "path_on_host"
    /\ effects[3].kind = "drive_id"
    /\ effects[3].value # effects[1].value
    /\ effects[4].kind = "is_read_only"
    /\ unwrap(built.value).drive_id = effects[3].value
    /\ unwrap(built.value).is_read_only
    /\ ~unwrap(built.value).is_root_device
    /\ unwrap(built.value).cache_type = None

====
